---- MODULE Spec2Model ----
(***************************************************************************)
(* A model of the zephyr-mcumgr client protocol stack:                     *)
(*   - the serial line framing of SerialTransport (transport/serial.rs),   *)
(*   - the SMP transport layer send_frame / receive_frame                  *)
(*     (transport/mod.rs),                                                 *)
(*   - the Connection with its mutex and sequence counter (connection.rs). *)
(* Bytes are the integers 0..255, byte strings are sequences of bytes.     *)
(***************************************************************************)
EXTENDS Integers, Sequences, FiniteSets, TLC

(***************************************************************************)
(* Bounds of the model.                                                    *)
(***************************************************************************)
\* smallest and largest MTU a SerialTransport is constructed with
MinMtu == 16
MaxMtu == 24
\* longest payload whose bytes are enumerated
MaxPayloadLen == 15

(***************************************************************************)
(* Program constants.                                                      *)
(***************************************************************************)
SMP_HEADER_SIZE == 8
SMP_TRANSFER_BUFFER_SIZE == 65535
U16_MAX == 65535
READ == 0
READ_RSP == 1
WRITE == 2
WRITE_RSP == 3
FRAME_START_1 == 6
FRAME_START_2 == 9
FRAME_START_CONT_1 == 4
FRAME_START_CONT_2 == 20
FRAME_END == 10

(***************************************************************************)
(* Helpers on byte strings.                                                *)
(***************************************************************************)
Min(a, b) == IF a <= b THEN a ELSE b

\* u16::to_be_bytes
U16BE(n) == << (n \div 256) % 256, n % 256 >>

\* concatenation of the byte strings ss[i], ss[i + 1], ...
RECURSIVE FlattenFrom(_, _)
FlattenFrom(ss, i) == IF i > Len(ss) THEN << >> ELSE ss[i] \o FlattenFrom(ss, i + 1)

Flatten(ss) == FlattenFrom(ss, 1)

(***************************************************************************)
(* CRC-16/XMODEM: width 16, polynomial 0x1021, initial value 0, no         *)
(* reflection, no final xor; computed bit by bit, most significant first.  *)
(***************************************************************************)
FlipBit(x, k) == IF (x \div (2 ^ k)) % 2 = 1 THEN x - (2 ^ k) ELSE x + (2 ^ k)

\* x XOR 0x1021
XorPoly(x) == FlipBit(FlipBit(FlipBit(x, 12), 5), 0)

CrcStep(crc, bit) ==
    LET top     == (crc \div 32768) % 2
        shifted == (crc * 2) % 65536
    IN  IF top # bit THEN XorPoly(shifted) ELSE shifted

RECURSIVE CrcByte(_, _, _)
CrcByte(crc, byte, k) ==
    IF k < 0 \/ crc \notin 0..65535 THEN crc
    ELSE CrcByte(CrcStep(crc, (byte \div (2 ^ k)) % 2), byte, k - 1)

RECURSIVE CrcFrom(_, _, _)
CrcFrom(crc, bytes, i) ==
    IF i > Len(bytes) \/ crc \notin 0..65535 THEN crc
    ELSE CrcFrom(CrcByte(crc, bytes[i], 7), bytes, i + 1)

\* Digest::update
CrcUpdate(crc, bytes) == CrcFrom(crc, bytes, 1)

\* digest.update(&header); digest.update(data); digest.finalize()
Checksum(hdr, payload) == CrcUpdate(CrcUpdate(0, hdr), payload)

(***************************************************************************)
(* Standard base64 with padding (BASE64_STANDARD), on ASCII codes.         *)
(***************************************************************************)
B64Char(i) ==
    IF i < 26 THEN 65 + i
    ELSE IF i < 52 THEN 97 + (i - 26)
    ELSE IF i < 62 THEN 48 + (i - 52)
    ELSE IF i = 62 THEN 43
    ELSE 47

B64Pad == 61

RECURSIVE Base64Encode(_)
Base64Encode(bytes) ==
    IF Len(bytes) = 0 THEN << >>
    ELSE IF Len(bytes) = 1 THEN
        << B64Char(bytes[1] \div 4), B64Char((bytes[1] % 4) * 16), B64Pad, B64Pad >>
    ELSE IF Len(bytes) = 2 THEN
        << B64Char(bytes[1] \div 4),
           B64Char((bytes[1] % 4) * 16 + bytes[2] \div 16),
           B64Char((bytes[2] % 16) * 4),
           B64Pad >>
    ELSE
        << B64Char(bytes[1] \div 4),
           B64Char((bytes[1] % 4) * 16 + bytes[2] \div 16),
           B64Char((bytes[2] % 16) * 4 + bytes[3] \div 64),
           B64Char(bytes[3] % 64) >>
        \o Base64Encode(SubSeq(bytes, 4, Len(bytes)))

\* index of a base64 character, -1 for a byte outside the alphabet
B64Index(c) ==
    IF c >= 65 /\ c <= 90 THEN c - 65
    ELSE IF c >= 97 /\ c <= 122 THEN c - 97 + 26
    ELSE IF c >= 48 /\ c <= 57 THEN c - 48 + 52
    ELSE IF c = 43 THEN 62
    ELSE IF c = 47 THEN 63
    ELSE -1

\* BASE64_STANDARD.decode of a whole number of quartets
RECURSIVE Base64Decode(_)
Base64Decode(chars) ==
    IF Len(chars) < 4 THEN << >>
    ELSE
        LET a == B64Index(chars[1])
            b == B64Index(chars[2])
            c == B64Index(chars[3])
            d == B64Index(chars[4])
            rest == Base64Decode(SubSeq(chars, 5, Len(chars)))
        IN  IF chars[3] = B64Pad THEN
                << a * 4 + b \div 16 >>
            ELSE IF chars[4] = B64Pad THEN
                << a * 4 + b \div 16, (b % 16) * 16 + c \div 4 >>
            ELSE
                << a * 4 + b \div 16, (b % 16) * 16 + c \div 4, (c % 4) * 64 + d >>
                \o rest

(***************************************************************************)
(* Sample inputs.                                                          *)
(***************************************************************************)
\* number of byte patterns payloads are filled with
NumPatterns == 2

\* pattern 1 is all 0xFF; the others walk through the byte values and
\* contain 0x0A
PatternByte(k, i) == IF k = 1 THEN 255 ELSE (7 * i * (k - 1) + 3) % 256

PayloadSamples ==
    { [i \in 1..n |-> PatternByte(k, i)] : n \in 0..MaxPayloadLen, k \in 1..NumPatterns }

(***************************************************************************)
(* SmpHeader and its 8-byte big-endian form (deku, bits = 3 / 2 / 3).      *)
(***************************************************************************)
SmpHeader(res, ver, op, flags, data_length, group_id, sequence_num, command_id) ==
    [res |-> res, ver |-> ver, op |-> op, flags |-> flags,
     data_length |-> data_length, group_id |-> group_id,
     sequence_num |-> sequence_num, command_id |-> command_id]

\* SmpHeader::to_slice
to_slice(h) ==
    << h.res * 32 + h.ver * 8 + h.op, h.flags >>
    \o U16BE(h.data_length) \o U16BE(h.group_id)
    \o << h.sequence_num, h.command_id >>

\* SmpHeader::from_bytes
from_bytes(b) ==
    SmpHeader(b[1] \div 32, (b[1] \div 8) % 4, b[1] % 8, b[2],
              b[3] * 256 + b[4], b[5] * 256 + b[6], b[7], b[8])

\* the header send_frame builds for a request
RequestHeader(write_operation, sequence_num, group_id, command_id, data_len) ==
    SmpHeader(0, 1, IF write_operation THEN WRITE ELSE READ, 0,
              data_len, group_id, sequence_num, command_id)

HeaderSamples ==
    { [i \in 1..SMP_HEADER_SIZE |-> 66],
      to_slice(RequestHeader(TRUE, 128, 0, 0, 13)) }

(***************************************************************************)
(* SerialTransport::new: the body buffer holds the raw bytes of one line   *)
(* frame, the transfer buffer its base64 form with opener and terminator.  *)
(***************************************************************************)
\* faulty variant of body_buffer_len: the opener and the terminator are not
\* taken off the MTU
BodyBufferNoOverhead(m) == (m \div 4) * 3

\* faulty variant of body_buffer_len: multiplied before the division, so
\* the length is not a multiple of 3
BodyBufferUnaligned(m) == ((m - 3) * 3) \div 4

body_buffer_len(m) == ((m - 3) \div 4) * 3

transfer_buffer_len(m) == m

(***************************************************************************)
(* send_raw_frame.  The loop of the function is computed on lengths first: *)
(* one record per iteration, holding whether it is the first one, the      *)
(* offset of its data chunk, the length of the chunk and of the footer.    *)
(***************************************************************************)
RECURSIVE SendLoop(_, _, _, _, _)
SendLoop(bufLen, total, off, is_first, acc) ==
    \* (an iteration after the first consumes at least one byte, so there
    \* are never more than total + 1 of them)
    IF ~(is_first \/ total - off > 0) \/ Len(acc) > total THEN acc
    ELSE
        LET body_header_len == IF is_first THEN 2 + SMP_HEADER_SIZE ELSE 0
            room     == bufLen - body_header_len
            body_len == Min(room, total - off)
            body_footer_len == IF room - body_len >= 2 THEN 2 ELSE 0
        IN  SendLoop(bufLen, total, off + body_len, FALSE,
                     Append(acc, [first |-> is_first, off |-> off,
                                  body |-> body_len, foot |-> body_footer_len]))

\* faulty variant of SendPlan: the size is checked after the first line
\* frame was written
SendPlanLateCheck(m, len) ==
    IF body_buffer_len(m) < 2 + SMP_HEADER_SIZE
    THEN [res |-> "panic", chunks |-> << >>]
    ELSE IF SMP_HEADER_SIZE + len + 2 > U16_MAX
    THEN [res |-> "DataTooBig",
          chunks |-> << [first |-> TRUE, off |-> 0,
                         body |-> Min(body_buffer_len(m) - 2 - SMP_HEADER_SIZE, len),
                         foot |-> 0] >>]
    ELSE [res |-> "Ok", chunks |-> SendLoop(body_buffer_len(m), len, 0, TRUE, << >>)]

\* faulty variant of SendPlan: the size check forgets the two CRC bytes
SendPlanNoCrcRoom(m, len) ==
    IF SMP_HEADER_SIZE + len > U16_MAX
    THEN [res |-> "DataTooBig", chunks |-> << >>]
    ELSE IF body_buffer_len(m) < 2 + SMP_HEADER_SIZE
    THEN [res |-> "panic", chunks |-> << >>]
    ELSE [res |-> "Ok", chunks |-> SendLoop(body_buffer_len(m), len, 0, TRUE, << >>)]

\* the outcome of the size check and of the first split_at_mut, and the
\* iterations of the loop
SendPlan(m, len) ==
    IF SMP_HEADER_SIZE + len + 2 > U16_MAX
    THEN [res |-> "DataTooBig", chunks |-> << >>]
    ELSE IF body_buffer_len(m) < 2 + SMP_HEADER_SIZE
    THEN [res |-> "panic", chunks |-> << >>]
    ELSE [res |-> "Ok", chunks |-> SendLoop(body_buffer_len(m), len, 0, TRUE, << >>)]

\* body_header || body || body_footer of one iteration
AssembledBody(chunk, hdr, payload, checksum) ==
    (IF chunk.first THEN U16BE(SMP_HEADER_SIZE + Len(payload) + 2) \o hdr ELSE << >>)
    \o SubSeq(payload, chunk.off + 1, chunk.off + chunk.body)
    \o (IF chunk.foot = 2 THEN U16BE(checksum) ELSE << >>)

\* faulty variant of LineFrame: every line frame gets the opener of the first
LineFrameAlwaysFirst(chunk, hdr, payload, checksum) ==
    << FRAME_START_1, FRAME_START_2 >>
    \o Base64Encode(AssembledBody(chunk, hdr, payload, checksum))
    \o << FRAME_END >>

\* the bytes handed to write_all in one iteration
LineFrame(chunk, hdr, payload, checksum) ==
    (IF chunk.first THEN << FRAME_START_1, FRAME_START_2 >>
                    ELSE << FRAME_START_CONT_1, FRAME_START_CONT_2 >>)
    \o Base64Encode(AssembledBody(chunk, hdr, payload, checksum))
    \o << FRAME_END >>

\* failAt = k > 0: the k-th write_all of the call fails; 0: no write fails
send_raw_frame(m, hdr, payload, failAt) ==
    LET plan     == SendPlan(m, Len(payload))
        checksum == Checksum(hdr, payload)
        lines    == [i \in 1..Len(plan.chunks) |->
                        LineFrame(plan.chunks[i], hdr, payload, checksum)]
    IN  IF plan.res # "Ok" THEN [res |-> plan.res, lines |-> << >>]
        ELSE IF failAt \in 1..Len(lines)
        THEN [res |-> "TransportError", lines |-> SubSeq(lines, 1, failAt - 1)]
        ELSE [res |-> "Ok", lines |-> lines]

\* recv_raw_frame is todo!(): calling it panics
recv_raw_frame(buffer) == [res |-> "panic", bytes |-> << >>]

(***************************************************************************)
(* State.                                                                  *)
(***************************************************************************)
VARIABLES
    mtu,         \* the MTU the SerialTransport was constructed with
    header,      \* the header given to send_raw_frame
    data,        \* the payload given to send_raw_frame
    failAt,      \* which write_all of the byte stream fails (0: none)
    written,     \* the line frames written to the byte stream, in order
    sendResult,  \* "none", or what send_raw_frame returned
    recvResult,  \* what recv_raw_frame returned (res = "none" before the call)
    tpc,         \* position of the transport's caller
    \* ---- Connection (connection.rs) ----
    mutex,       \* the thread holding Connection::inner, or NoThread
    next_seqnum, \* Inner::next_seqnum
    initSeq,     \* the value next_seqnum was constructed with
    pc,          \* per thread: "idle", "locked", "sending", "receiving"
    call,        \* per thread: the call in progress
    result,      \* per thread: what its last call returned
    ncalls,      \* number of calls started on the connection
    exchanges,   \* the calls that did I/O on the transport, in I/O order
    reqSeqs,     \* the sequence numbers given to send_frame, in order
    \* ---- one exchange on a Transport (transport/mod.rs) ----
    xfer,        \* the request, the frames the device answers with, and
                 \* what send_frame and receive_frame returned
    \* ---- one call of firmware_update (client/firmware_update.rs) ----
    fw,          \* its arguments, its position, the requests sent and the
                 \* progress callbacks invoked so far, and its result
    \* ---- one call of get_image_info (mcuboot/image/mod.rs) ----
    img,         \* the image file and what get_image_info returned for it
    \* ---- one chunked file transfer (spec 4.5) ----
    ft,          \* the transfer's arguments, its offset, the requests sent
                 \* and the responses received so far, and its result
    \* ---- one header built by send_frame (transport/mod.rs) ----
    smp,         \* send_frame's arguments, the 8 header bytes it hands to
                 \* send_raw_frame, and the header decoded from them
    \* ---- the Python binding's guarded client (locked_client.rs) ----
    lk           \* the Mutex<Option<MCUmgrClient>>, the LockedClient each
                 \* thread holds and what its calls returned

framingVars == << mtu, header, data, failAt, written, sendResult, recvResult, tpc >>

connVars == << mutex, next_seqnum, initSeq, pc, call, result, ncalls, exchanges, reqSeqs >>

auxVars == << img, ft, smp, lk >>

vars == << framingVars, connVars, xfer, fw, auxVars >>

\* largest index of a failing write_all
MaxFailAt == 2

\* no exchange is modelled on its own
NoXfer == [pc |-> "unused"]

\* firmware_update is not called
NoFw == [pc |-> "unused"]

\* get_image_info is not called
NoImg == [pc |-> "unused"]

\* no file is transferred
NoFt == [pc |-> "unused"]

\* no header is looked at on its own
NoSmp == [pc |-> "unused"]

\* no Python client exists
NoLk == [pc |-> "unused"]

\* no Connection exists in the specifications of the transport alone
ConnUnused ==
    /\ mutex = 0
    /\ next_seqnum = 0
    /\ initSeq = 0
    /\ pc = << >>
    /\ call = << >>
    /\ result = << >>
    /\ ncalls = 0
    /\ exchanges = << >>
    /\ reqSeqs = << >>

(***************************************************************************)
(* SpecFraming: a caller sends one raw frame over a byte stream and then   *)
(* receives from it (tests/transport_serial_tests.rs).                     *)
(***************************************************************************)
FramingInit ==
    /\ mtu \in MinMtu..MaxMtu
    /\ header \in HeaderSamples
    /\ data \in PayloadSamples
    /\ failAt \in 0..MaxFailAt
    /\ written = << >>
    /\ sendResult = "none"
    /\ recvResult = [res |-> "none", bytes |-> << >>]
    /\ img = NoImg
    /\ ft = NoFt
    /\ smp = NoSmp
    /\ lk = NoLk
    /\ tpc = "start"
    /\ ConnUnused
    /\ xfer = NoXfer
    /\ fw = NoFw

SendRawFrame ==
    /\ tpc = "start"
    /\ LET r == send_raw_frame(mtu, header, data, failAt)
       IN  /\ written' = r.lines
           /\ sendResult' = r.res
           /\ tpc' = IF r.res = "panic" THEN "panicked" ELSE "sent"
    /\ UNCHANGED << mtu, header, data, failAt, recvResult >>
    /\ UNCHANGED << connVars, xfer, fw, auxVars >>

RecvRawFrame ==
    /\ tpc = "sent"
    /\ sendResult = "Ok"
    /\ LET r == recv_raw_frame(SMP_TRANSFER_BUFFER_SIZE)
       IN  /\ recvResult' = r
           /\ tpc' = IF r.res = "panic" THEN "panicked" ELSE "received"
    /\ UNCHANGED << mtu, header, data, failAt, written, sendResult >>
    /\ UNCHANGED << connVars, xfer, fw, auxVars >>

FramingNext == SendRawFrame \/ RecvRawFrame

SpecFraming == FramingInit /\ [][FramingNext]_vars

\* the bytes a line frame carries between its opener and its terminator,
\* base64-decoded
DecodedBody(line) == Base64Decode(SubSeq(line, 3, Len(line) - 1))

\* the raw frame of the spec: length, header, payload, CRC
RawFrame(hdr, payload) ==
    U16BE(SMP_HEADER_SIZE + Len(payload) + 2) \o hdr \o payload
    \o U16BE(Checksum(hdr, payload))

(***************************************************************************)
(* Claims on the serial line framing.                                      *)
(***************************************************************************)
\* the base64-decoded bodies of the line frames written, concatenated
DecodedWire == Flatten([i \in 1..Len(written) |-> DecodedBody(written[i])])

\* C1: framing round trip.  Once send_raw_frame(h, p) has succeeded over the
\* byte stream and recv_raw_frame has been called, recv_raw_frame has
\* returned exactly h followed by p.
C1_FramingRoundTrip ==
    (sendResult = "Ok" /\ recvResult.res # "none")
        => recvResult = [res |-> "Ok", bytes |-> header \o data]

\* C2: raw frame composition.  When send_raw_frame succeeds, the decoded
\* bodies of the line frames it wrote concatenate to
\* u16_be(8 + |p| + 2) || h || p || crc_be, for every payload length.
C2_RawFrameComposition ==
    sendResult = "Ok" => DecodedWire = RawFrame(header, data)

\* the base64 body of a line frame: the bytes between opener and terminator
Base64Body(line) == SubSeq(line, 3, Len(line) - 1)

\* line frame i is the last one of its SMP frame
IsLastLine(i) == sendResult = "Ok" /\ i = Len(written)

\* C11: the first line frame written begins with 06 09, every later one
\* with 04 14, every one ends with 0A; exactly one line frame of the SMP
\* frame begins with 06 09 and 0A occurs nowhere inside a body.
C11_LineFrameMarkers ==
    /\ \A i \in 1..Len(written) :
          LET l == written[i]
          IN  /\ Len(l) >= 3
              /\ << l[1], l[2] >> = IF i = 1 THEN << FRAME_START_1, FRAME_START_2 >>
                                            ELSE << FRAME_START_CONT_1, FRAME_START_CONT_2 >>
              /\ l[Len(l)] = FRAME_END
              /\ \A j \in 1..Len(Base64Body(l)) : Base64Body(l)[j] # FRAME_END
    /\ written # << >> =>
          Cardinality({i \in 1..Len(written) :
                          written[i][1] = FRAME_START_1 /\ written[i][2] = FRAME_START_2}) = 1

\* a payload containing the byte 0A was sent in three or more line frames
C11_Witness ==
    /\ sendResult = "Ok"
    /\ Len(written) >= 3
    /\ \E i \in 1..Len(data) : data[i] = FRAME_END

\* C12: every line frame written, with opener, base64 body and terminator,
\* is at most MTU bytes long.
C12_LineFrameWithinMtu ==
    \A i \in 1..Len(written) : Len(written[i]) <= mtu

\* a frame was sent in several line frames, one of them exactly MTU bytes long
C12_Witness ==
    /\ sendResult = "Ok"
    /\ Len(written) >= 2
    /\ \E i \in 1..Len(written) : Len(written[i]) = mtu

\* C13: the base64 body of every line frame is a whole number of quartets,
\* and every line frame but the last of the SMP frame encodes a multiple of
\* 3 raw bytes, with no padding character.
C13_WholeQuartets ==
    \A i \in 1..Len(written) :
        LET b == Base64Body(written[i])
        IN  /\ Len(b) % 4 = 0
            /\ ~IsLastLine(i) =>
                  /\ \A j \in 1..Len(b) : b[j] # B64Pad
                  /\ Len(DecodedBody(written[i])) % 3 = 0
                  /\ Len(DecodedBody(written[i])) * 4 = Len(b) * 3

\* a frame was sent in several line frames and its last one is padded
C13_Witness ==
    /\ sendResult = "Ok"
    /\ Len(written) >= 2
    /\ written[Len(written)][Len(written[Len(written)]) - 1] = B64Pad

\* C14: with an MTU of 16, send_raw_frame completes without failing or
\* panicking, emits continuation line frames, and the receiver reassembles
\* the header and the payload.
C14_MinimumMtu ==
    (mtu = 16 /\ failAt = 0 /\ tpc # "start")
        => /\ sendResult = "Ok"
           /\ Len(written) >= 2
           /\ tpc # "sent" => recvResult = [res |-> "Ok", bytes |-> header \o data]

(***************************************************************************)
(* Connection (connection.rs).                                             *)
(*                                                                         *)
(* A Connection owns a Box<dyn Transport + Send>.  A request's payload is  *)
(* represented by the length of its encoding, a response payload by the    *)
(* CBOR value its bytes decode to.  What receive_frame returns is drawn    *)
(* over the outcomes a Transport implementation can produce; the outcome   *)
(* of the default receive_frame of transport/mod.rs (an empty payload) is  *)
(* one of them.                                                            *)
(***************************************************************************)
\* number of threads sharing the Connection
NumThreads == 2
\* number of calls made on the Connection
MaxCalls == 2
\* MTU of the Connection's SerialTransport
ConnMtu == 23

Threads == 1..NumThreads

\* no thread holds the mutex
NoThread == 0

\* values rand::random() gives next_seqnum at construction
SeqSamples == {0, 127, 255}

\* faulty variant of wrapping_add: the increment does not wrap
NoWrapAdd(x) == x + 1

\* u8::wrapping_add(1)
wrapping_add(x) == (x + 1) % 256

\* a response payload: the kind of CBOR item, the envelope fields rc and err
\* (typed: they have the types of ErrResponse), and the other map keys
Payload(cbor, typed, has_rc, rc, has_err, err_group, err_rc, fields) ==
    [cbor |-> cbor, typed |-> typed, has_rc |-> has_rc, rc |-> rc,
     has_err |-> has_err, err_group |-> err_group, err_rc |-> err_rc,
     fields |-> fields]

\* &[]: no bytes
EmptyPayload == Payload("empty", TRUE, FALSE, 0, FALSE, 0, 0, {})

ResponseSamples ==
    { EmptyPayload,
      Payload("scalar", TRUE, FALSE, 0, FALSE, 0, 0, {}),
      Payload("map", TRUE, FALSE, 0, FALSE, 0, 0, {"r"}),
      Payload("map", TRUE, FALSE, 0, FALSE, 0, 0, {"buf_size", "buf_count"}),
      Payload("map", TRUE, TRUE, 8, FALSE, 0, 0, {}),
      Payload("map", TRUE, TRUE, 0, FALSE, 0, 0, {"r"}),
      Payload("map", TRUE, FALSE, 0, TRUE, 0, 8, {}),
      Payload("map", TRUE, TRUE, 3, TRUE, 0, 8, {"r"}),
      Payload("map", FALSE, FALSE, 0, TRUE, 0, 0, {}) }

\* Result<&[u8], ReceiveError> of Transport::receive_frame
ReceiveOutcomes ==
    { [res |-> "Ok", err |-> "", payload |-> r] : r \in ResponseSamples }
    \cup { [res |-> "Err", err |-> e, payload |-> EmptyPayload] :
              e \in {"TransportError", "UnexpectedResponse"} }

NoOutcome == [res |-> "none", err |-> "", payload |-> EmptyPayload]

\* the requests: kind "command" goes through execute_command, "raw" through
\* execute_raw_command; len is the length of the (encoded) payload
Request(kind, name, write, group, id, len) ==
    [kind |-> kind, name |-> name, write |-> write, group |-> group,
     id |-> id, len |-> len]

RequestSamples ==
    { Request("command", "Echo", TRUE, 0, 0, 20),
      Request("command", "MCUmgrParameters", FALSE, 0, 6, 1),
      Request("command", "Echo", TRUE, 0, 0, 65526),
      Request("command", "Echo", TRUE, 0, 0, 65536),
      Request("raw", "raw", TRUE, 9, 0, 2),
      Request("raw", "raw", FALSE, 9, 0, 65536) }

\* the keys the command's Response type requires
ResponseFields(name) ==
    IF name = "Echo" THEN {"r"}
    ELSE IF name = "MCUmgrParameters" THEN {"buf_size", "buf_count"}
    ELSE {}

\* ciborium::into_writer(request.data(), &mut cursor): the cursor runs over
\* the transport buffer and fails once it is full
into_writer(req) ==
    IF req.len > SMP_TRANSFER_BUFFER_SIZE
    THEN [res |-> "Err", data_size |-> 0]
    ELSE [res |-> "Ok", data_size |-> req.len]

\* ciborium::from_reader::<ErrResponse>
from_reader_ErrResponse(p) ==
    IF p.cbor = "map" /\ p.typed
    THEN [res |-> "Ok", has_rc |-> p.has_rc, rc |-> p.rc,
          has_err |-> p.has_err, group |-> p.err_group, err_rc |-> p.err_rc]
    ELSE [res |-> "Err", has_rc |-> FALSE, rc |-> 0,
          has_err |-> FALSE, group |-> 0, err_rc |-> 0]

\* ciborium::from_reader::<R::Response>: unknown keys are ignored
from_reader_Response(req, p) ==
    IF p.cbor = "map" /\ ResponseFields(req.name) \subseteq p.fields
    THEN [res |-> "Ok", value |-> ResponseFields(req.name)]
    ELSE [res |-> "Err", value |-> {}]

\* Result<_, ExecuteError>; rx is the outcome of receive_frame, if it ran
\* the value inside Ok(..): nothing, the owned bytes of a raw response, or
\* the fields of a decoded response
NoValue == [kind |-> "none", payload |-> EmptyPayload, fields |-> {}]

Returned(res, err, group, rc, rx) ==
    [res |-> res, err |-> err, group |-> group, rc |-> rc, rx |-> rx,
     value |-> NoValue]

\* Ok(value)
ReturnedOk(kind, payload, fields, rx) ==
    [Returned("Ok", "", 0, 0, rx) EXCEPT
        !.value = [kind |-> kind, payload |-> payload, fields |-> fields]]

NoResult == Returned("none", "", 0, 0, NoOutcome)

\* Transport::send_frame up to the first write: data_length must fit a u16,
\* then send_raw_frame's own checks and loop
send_frame(m, len) ==
    IF len > U16_MAX THEN [res |-> "DataTooBig", chunks |-> << >>]
    ELSE SendPlan(m, len)

\* faulty variant of ClassifyResponse: the rc field is looked at before the err field
ClassifyRcFirst(req, out) ==
    LET e == from_reader_ErrResponse(out.payload)
    IN  IF e.res = "Err" THEN Returned("DecodeFailed", "", 0, 0, out)
        ELSE IF e.has_rc THEN Returned("ErrorResponse", "V1", 0, e.rc, out)
        ELSE IF e.has_err THEN Returned("ErrorResponse", "V2", e.group, e.err_rc, out)
        ELSE IF from_reader_Response(req, out.payload).res = "Err"
        THEN Returned("DecodeFailed", "", 0, 0, out)
        ELSE ReturnedOk("response", EmptyPayload,
                        from_reader_Response(req, out.payload).value, out)

\* execute_command after receive_frame: the error envelope, then the response
ClassifyResponse(req, out) ==
    LET e == from_reader_ErrResponse(out.payload)
    IN  IF e.res = "Err" THEN Returned("DecodeFailed", "", 0, 0, out)
        ELSE IF e.has_err THEN Returned("ErrorResponse", "V2", e.group, e.err_rc, out)
        ELSE IF e.has_rc THEN Returned("ErrorResponse", "V1", 0, e.rc, out)
        ELSE IF from_reader_Response(req, out.payload).res = "Err"
        THEN Returned("DecodeFailed", "", 0, 0, out)
        ELSE ReturnedOk("response", EmptyPayload,
                        from_reader_Response(req, out.payload).value, out)

\* faulty variant of AfterReceive: execute_raw_command interprets the error
\* envelope like execute_command
AfterReceiveDecodeAlways(req, out) ==
    IF out.res = "Err" THEN Returned("ReceiveFailed", out.err, 0, 0, out)
    ELSE ClassifyResponse(req, out)

\* what execute_command / execute_raw_command return once receive_frame has
\* returned out
AfterReceive(req, out) ==
    IF out.res = "Err" THEN Returned("ReceiveFailed", out.err, 0, 0, out)
    ELSE IF req.kind = "raw" THEN ReturnedOk("bytes", out.payload, {}, out)
    ELSE ClassifyResponse(req, out)

\* faulty variant of MutexFree: lock() never blocks
NeverBlocks(owner) == TRUE

\* self.inner.lock(): blocks until no thread holds the mutex
MutexFree(owner) == owner = NoThread

\* faulty variant of DropGuard: the guard outlives the call
KeepGuard(t) == t

\* the MutexGuard is dropped when the function returns, by `?` too
DropGuard(t) == NoThread

\* the call numbered n did I/O on the transport
Touch(log, n) == IF log # << >> /\ log[Len(log)] = n THEN log ELSE Append(log, n)

NoCall == [req |-> Request("none", "none", FALSE, 0, 0, 0), n |-> 0, seq |-> 0, lines |-> 0]

ConnInit ==
    /\ mtu = ConnMtu
    /\ header = << >>
    /\ data = << >>
    /\ failAt = 0
    /\ written = << >>
    /\ sendResult = "none"
    /\ recvResult = [res |-> "none", bytes |-> << >>]
    /\ img = NoImg
    /\ ft = NoFt
    /\ smp = NoSmp
    /\ lk = NoLk
    /\ tpc = "unused"
    /\ mutex = NoThread
    /\ initSeq \in SeqSamples
    /\ next_seqnum = initSeq
    /\ pc = [t \in Threads |-> "idle"]
    /\ call = [t \in Threads |-> NoCall]
    /\ result = [t \in Threads |-> NoResult]
    /\ ncalls = 0
    /\ exchanges = << >>
    /\ reqSeqs = << >>
    /\ xfer = NoXfer
    /\ fw = NoFw

\* the function returns r: the guard is dropped
Return(t, r) ==
    /\ result' = [result EXCEPT ![t] = r]
    /\ mutex' = DropGuard(t)
    /\ pc' = [pc EXCEPT ![t] = "idle"]

\* a thread calls execute_command or execute_raw_command and gets the lock
Lock(t) ==
    /\ pc[t] = "idle"
    /\ ncalls < MaxCalls
    /\ MutexFree(mutex)
    /\ \E req \in RequestSamples :
          call' = [call EXCEPT ![t] = [req |-> req, n |-> ncalls + 1, seq |-> 0, lines |-> 0]]
    /\ mutex' = t
    /\ ncalls' = ncalls + 1
    /\ pc' = [pc EXCEPT ![t] = "locked"]
    /\ UNCHANGED << next_seqnum, initSeq, result, exchanges, reqSeqs >>
    /\ UNCHANGED << framingVars, xfer, fw, auxVars >>

\* faulty variant of Prepare: the sequence number is taken before the
\* request is encoded
PrepareSeqBeforeEncode(t) ==
    /\ pc[t] = "locked"
    /\ next_seqnum' = wrapping_add(next_seqnum)
    /\ reqSeqs' = Append(reqSeqs, next_seqnum)
    /\ LET req == call[t].req
           plan == send_frame(mtu, req.len)
       IN  IF req.kind = "command" /\ into_writer(req).res = "Err"
           THEN /\ Return(t, Returned("EncodeFailed", "", 0, 0, NoOutcome))
                /\ UNCHANGED call
           ELSE IF plan.res # "Ok"
           THEN /\ Return(t, Returned("SendFailed", plan.res, 0, 0, NoOutcome))
                /\ UNCHANGED call
           ELSE /\ call' = [call EXCEPT ![t].seq = next_seqnum,
                                        ![t].lines = Len(plan.chunks)]
                /\ pc' = [pc EXCEPT ![t] = "sending"]
                /\ UNCHANGED << result, mutex >>
    /\ UNCHANGED << initSeq, ncalls, exchanges >>
    /\ UNCHANGED << framingVars, xfer, fw, auxVars >>

\* encoding (execute_command only), the sequence number, and send_frame up
\* to its first write
Prepare(t) ==
    /\ pc[t] = "locked"
    /\ LET req == call[t].req
       IN  IF req.kind = "command" /\ into_writer(req).res = "Err"
           THEN /\ Return(t, Returned("EncodeFailed", "", 0, 0, NoOutcome))
                /\ UNCHANGED << next_seqnum, call, reqSeqs >>
           ELSE LET sequence_num == next_seqnum
                    plan == send_frame(mtu, req.len)
                IN  /\ next_seqnum' = wrapping_add(next_seqnum)
                    /\ reqSeqs' = Append(reqSeqs, sequence_num)
                    /\ IF plan.res # "Ok"
                       THEN /\ Return(t, Returned("SendFailed", plan.res, 0, 0, NoOutcome))
                            /\ UNCHANGED call
                       ELSE /\ call' = [call EXCEPT ![t].seq = sequence_num,
                                                    ![t].lines = Len(plan.chunks)]
                            /\ pc' = [pc EXCEPT ![t] = "sending"]
                            /\ UNCHANGED << result, mutex >>
    /\ UNCHANGED << initSeq, ncalls, exchanges >>
    /\ UNCHANGED << framingVars, xfer, fw, auxVars >>

\* one iteration of send_raw_frame's loop: write_all of one line frame
WriteLine(t) ==
    /\ pc[t] = "sending"
    /\ exchanges' = Touch(exchanges, call[t].n)
    /\ \E ok \in BOOLEAN :
          IF ~ok
          THEN /\ Return(t, Returned("SendFailed", "TransportError", 0, 0, NoOutcome))
               /\ UNCHANGED call
          ELSE /\ call' = [call EXCEPT ![t].lines = @ - 1]
               /\ pc' = [pc EXCEPT ![t] = IF call[t].lines = 1 THEN "receiving" ELSE "sending"]
               /\ UNCHANGED << result, mutex >>
    /\ UNCHANGED << next_seqnum, initSeq, ncalls, reqSeqs >>
    /\ UNCHANGED << framingVars, xfer, fw, auxVars >>

\* receive_frame returns, and with it the call
Receive(t) ==
    /\ pc[t] = "receiving"
    /\ exchanges' = Touch(exchanges, call[t].n)
    /\ \E out \in ReceiveOutcomes : Return(t, AfterReceive(call[t].req, out))
    /\ UNCHANGED << next_seqnum, initSeq, call, ncalls, reqSeqs >>
    /\ UNCHANGED << framingVars, xfer, fw, auxVars >>

ConnNext == \E t \in Threads : Lock(t) \/ Prepare(t) \/ WriteLine(t) \/ Receive(t)

SpecConn == ConnInit /\ [][ConnNext]_vars

(***************************************************************************)
(* Claims on the Connection.                                               *)
(***************************************************************************)
\* C3: at most one SMP request is in flight per Connection.  At most one
\* thread is between taking the lock and returning, and the I/O of one call
\* (its line frames and the reception of its response) is contiguous on the
\* transport: no call does I/O, is followed by another call's I/O, and then
\* does I/O again.
C3_OneInFlight ==
    /\ Cardinality({t \in Threads : pc[t] # "idle"}) <= 1
    /\ \A i, j \in 1..Len(exchanges) : i # j => exchanges[i] # exchanges[j]

\* two threads have used the transport one after the other
C3_Witness ==
    \E t, u \in Threads :
        /\ t # u
        /\ pc[t] = "idle" /\ result[t].rx.res = "Ok"
        /\ pc[u] = "receiving"
        /\ Len(exchanges) = 2

\* C4: the sequence numbers of the requests form an arithmetic progression
\* modulo 256 with step 1, starting from the connection's initial value.
C4_SeqProgression ==
    \A i \in 1..Len(reqSeqs) : reqSeqs[i] = (initSeq + (i - 1)) % 256

\* the request after the one numbered 255 is numbered 0
C4_Witness == Len(reqSeqs) = 2 /\ reqSeqs[1] = 255 /\ reqSeqs[2] = 0

\* what a step of thread t does to next_seqnum: the step that leaves the
\* locked position adds 1 (modulo 256) and hands the old value to the
\* request, unless it returns EncodeFailed; every other step, a failing
\* write or reception included, leaves it alone
SeqStep(t) ==
    IF pc[t] = "locked" /\ pc'[t] # "locked"
    THEN IF pc'[t] = "idle" /\ result'[t].res = "EncodeFailed"
         THEN next_seqnum' = next_seqnum /\ reqSeqs' = reqSeqs
         ELSE /\ next_seqnum' = (next_seqnum + 1) % 256
              /\ reqSeqs' = Append(reqSeqs, next_seqnum)
    ELSE pc'[t] # pc[t] => (next_seqnum' = next_seqnum /\ reqSeqs' = reqSeqs)

ClassifiedMap(t) ==
    /\ pc[t] = "idle"
    /\ call[t].req.kind = "command"
    /\ result[t].rx.res = "Ok"
    /\ result[t].rx.payload.cbor = "map"
    /\ result[t].rx.payload.typed

\* C7: execute_command classifies a response by its error envelope in a
\* fixed precedence: err present gives ErrorResponse(V2{group, rc}), also
\* when rc is present too; otherwise rc present gives ErrorResponse(V1{rc});
\* only when neither is present is the payload decoded as the command's
\* response type.
C7_ErrorEnvelopePrecedence ==
    \A t \in Threads :
        ClassifiedMap(t) =>
            LET r == result[t]
                p == r.rx.payload
            IN  /\ p.has_err =>
                      r = Returned("ErrorResponse", "V2", p.err_group, p.err_rc, r.rx)
                /\ (~p.has_err /\ p.has_rc) =>
                      r = Returned("ErrorResponse", "V1", 0, p.rc, r.rx)
                /\ (~p.has_err /\ ~p.has_rc) =>
                      r.res = IF ResponseFields(call[t].req.name) \subseteq p.fields
                              THEN "Ok" ELSE "DecodeFailed"

\* a response carrying both err = {group: 0, rc: 8} and rc = 3 was classified
C7_Witness ==
    \E t \in Threads :
        /\ ClassifiedMap(t)
        /\ result[t].rx.payload.has_err /\ result[t].rx.payload.has_rc
        /\ result[t].res = "ErrorResponse" /\ result[t].err = "V2"
        /\ result[t].group = 0 /\ result[t].rc = 8

\* C8: a response whose map carries rc = 0 and no err field is not returned
\* as ErrorResponse but decoded as the command's normal response.
C8_RcZeroIsNoError ==
    \A t \in Threads :
        (/\ ClassifiedMap(t)
         /\ result[t].rx.payload.has_rc
         /\ result[t].rx.payload.rc = 0
         /\ ~result[t].rx.payload.has_err)
        => /\ result[t].res # "ErrorResponse"
           /\ result[t].res =
                 IF ResponseFields(call[t].req.name) \subseteq result[t].rx.payload.fields
                 THEN "Ok" ELSE "DecodeFailed"

\* C9: after a call has returned SendFailed or ReceiveFailed the mutex is
\* not left held: it is free, or held by a thread that is inside a later
\* call of its own, so a subsequent call can take it and send.
C9_UsableAfterFailure ==
    \A t \in Threads :
        (pc[t] = "idle" /\ result[t].res \in {"SendFailed", "ReceiveFailed"})
        => /\ mutex # t
           /\ (mutex = NoThread \/ pc[mutex] # "idle")

\* a call failed to receive (a read error of the byte stream, such as a
\* timeout) and a later call, of the same or of another thread, has sent its
\* request
C9_Witness ==
    \E t, u \in Threads :
        /\ result[t].res = "ReceiveFailed" /\ result[t].err = "TransportError"
        /\ pc[u] = "receiving"
        /\ call[u].seq = wrapping_add(initSeq)

\* C16: execute_raw_command does no CBOR coding and interprets no error
\* envelope: whatever payload receive_frame gave it, a map with rc or err
\* included, is returned unchanged as owned bytes in Ok, never as
\* ErrorResponse.
C16_RawCommandReturnsPayload ==
    \A t \in Threads :
        (pc[t] = "idle" /\ call[t].req.kind = "raw" /\ result[t].rx.res = "Ok")
        => /\ result[t].res = "Ok"
           /\ result[t].value =
                 [kind |-> "bytes", payload |-> result[t].rx.payload, fields |-> {}]

\* a raw command was answered with a map that carries an err field
C16_Witness ==
    \E t \in Threads :
        /\ pc[t] = "idle" /\ call[t].req.kind = "raw"
        /\ result[t].res = "Ok"
        /\ result[t].rx.payload.cbor = "map" /\ result[t].rx.payload.has_err
        /\ result[t].value.payload = result[t].rx.payload

(***************************************************************************)
(* One exchange on a Transport: send_frame (or send_raw_frame alone) and   *)
(* then receive_frame, the default methods of the trait, with payloads     *)
(* given by their length and the frames the device answers with.           *)
(***************************************************************************)
\* MTUs of the transports long frames are sent over
MidMtu == 1027
BigMtu == 4099
\* payload lengths run from U16_MAX - MaxUnder to U16_MAX + MaxOver
MaxUnder == 12
MaxOver == 3
\* number of frames the device may have sent
MaxRxFrames == 2

LimitMtus == {MidMtu, BigMtu}

LenSamples == {0, 1} \cup ((U16_MAX - MaxUnder)..(U16_MAX + MaxOver))

\* the response op receive_frame is documented to require
expected_op(write_operation) == IF write_operation THEN WRITE_RSP ELSE READ_RSP

\* a frame sent by the device
Frame(op, group, seq, id, payload) ==
    [op |-> op, group |-> group, seq |-> seq, id |-> id, payload |-> payload,
     crc_ok |-> TRUE]

\* frame f with a byte altered on the line: its trailing CRC does not match
Corrupted(f) == [f EXCEPT !.crc_ok = FALSE]

\* frames a device may answer the request (write, seq 0x80, group 0, id 0)
\* with: the matching one, one with another sequence number, one each
\* with the wrong op, group and command id, and the matching one corrupted
FrameSamples(write_operation) ==
    { Frame(expected_op(write_operation), 0, 128, 0,
            Payload("map", TRUE, FALSE, 0, FALSE, 0, 0, {"r"})),
      Frame(expected_op(write_operation), 0, 127, 0,
            Payload("map", TRUE, TRUE, 8, FALSE, 0, 0, {})),
      Frame(expected_op(~write_operation), 0, 128, 0,
            Payload("map", TRUE, FALSE, 0, FALSE, 0, 0, {"r"})),
      Frame(expected_op(write_operation), 8, 128, 0,
            Payload("map", TRUE, FALSE, 0, FALSE, 0, 0, {"r"})),
      Frame(expected_op(write_operation), 0, 128, 1,
            Payload("map", TRUE, FALSE, 0, FALSE, 0, 0, {"r"})),
      Corrupted(Frame(expected_op(write_operation), 0, 128, 0,
                      Payload("map", TRUE, FALSE, 0, FALSE, 0, 0, {"r"}))) }

FrameQueues(write_operation) ==
    UNION { [1..n -> FrameSamples(write_operation)] : n \in 0..MaxRxFrames }

\* Transport::receive_frame: `return Ok(&[]);` -- it reads no frame and
\* returns an empty payload
receive_frame(frames, write_operation, sequence_num, group_id, command_id) ==
    [out |-> [res |-> "Ok", err |-> "", payload |-> EmptyPayload], rest |-> frames]

TransportInit ==
    /\ mtu \in LimitMtus
    /\ header = << >>
    /\ data = << >>
    /\ failAt = 0
    /\ written = << >>
    /\ sendResult = "none"
    /\ recvResult = [res |-> "none", bytes |-> << >>]
    /\ img = NoImg
    /\ ft = NoFt
    /\ smp = NoSmp
    /\ lk = NoLk
    /\ tpc = "unused"
    /\ ConnUnused
    /\ fw = NoFw
    /\ \E w \in BOOLEAN, l \in LenSamples :
          \E f \in FrameQueues(w) :
             xfer = [pc |-> "start", write |-> w, seq |-> 128, group |-> 0, id |-> 0,
                     len |-> l, frames |-> f, rest |-> f, via |-> "none",
                     sent |-> [res |-> "none", lines |-> 0], rcvd |-> NoOutcome]

\* send_frame(write, seq, group, id, data) with |data| = xfer.len
SendFrame ==
    /\ xfer.pc = "start"
    /\ LET plan == send_frame(mtu, xfer.len)
       IN  xfer' = [xfer EXCEPT !.pc = "sent", !.via = "send_frame",
                                !.sent = [res |-> plan.res, lines |-> Len(plan.chunks)]]
    /\ UNCHANGED << framingVars, connVars, fw, auxVars >>

\* send_raw_frame(header, data) called directly, with |data| = xfer.len
SendRawFrameSized ==
    /\ xfer.pc = "start"
    /\ LET plan == SendPlan(mtu, xfer.len)
       IN  xfer' = [xfer EXCEPT !.pc = "sent", !.via = "send_raw_frame",
                                !.sent = [res |-> plan.res, lines |-> Len(plan.chunks)]]
    /\ UNCHANGED << framingVars, connVars, fw, auxVars >>

\* receive_frame for the request that was sent
ReceiveFrame ==
    /\ xfer.pc = "sent"
    /\ xfer.via = "send_frame"
    /\ xfer.sent.res = "Ok"
    /\ LET r == receive_frame(xfer.rest, xfer.write, xfer.seq, xfer.group, xfer.id)
       IN  xfer' = [xfer EXCEPT !.pc = "received", !.rcvd = r.out, !.rest = r.rest]
    /\ UNCHANGED << framingVars, connVars, fw, auxVars >>

TransportNext == SendFrame \/ SendRawFrameSized \/ ReceiveFrame

SpecTransport == TransportInit /\ [][TransportNext]_vars

(***************************************************************************)
(* Claims on send_frame and receive_frame.                                 *)
(***************************************************************************)
\* frame f answers the outstanding request
Matches(f) ==
    /\ f.seq = xfer.seq
    /\ f.group = xfer.group
    /\ f.id = xfer.id
    /\ f.op = expected_op(xfer.write)

\* the first frame of the device that carries the outstanding sequence
\* number is frame i
FirstWithSeq(i) ==
    /\ i \in 1..Len(xfer.frames)
    /\ xfer.frames[i].seq = xfer.seq
    /\ \A j \in 1..(i - 1) : xfer.frames[j].seq # xfer.seq

\* what execute_command returns for an Echo once receive_frame has returned
EchoAfterReceive == AfterReceive(Request("command", "Echo", TRUE, 0, 0, xfer.len), xfer.rcvd)

\* C5: receive_frame returns a payload only from a frame whose sequence
\* number, group, command id and op match the outstanding request; frames
\* with another sequence number that arrive first are discarded and the
\* matching frame's payload is returned, with no error surfaced by
\* execute_command.
C5_ReturnsOnlyMatchingFrame ==
    (xfer.pc = "received" /\ xfer.rcvd.res = "Ok")
        => \E i \in 1..Len(xfer.frames) :
              /\ FirstWithSeq(i)
              /\ Matches(xfer.frames[i])
              /\ xfer.rcvd.payload = xfer.frames[i].payload
              /\ xfer.rest = SubSeq(xfer.frames, i + 1, Len(xfer.frames))
              /\ EchoAfterReceive.res # "ReceiveFailed"

\* C6: if the first frame carrying the outstanding sequence number has
\* another op, group or command id than the request, receive_frame fails
\* with UnexpectedResponse and execute_command returns ReceiveFailed.
C6_UnexpectedResponse ==
    xfer.pc = "received"
        => \A i \in 1..Len(xfer.frames) :
              (FirstWithSeq(i) /\ ~Matches(xfer.frames[i]))
                  => /\ xfer.rcvd = [res |-> "Err", err |-> "UnexpectedResponse",
                                     payload |-> EmptyPayload]
                     /\ EchoAfterReceive.res = "ReceiveFailed"

\* C15: when the frame received for a request has a CRC that does not match
\* its header and payload, receive_frame fails and execute_command returns
\* ReceiveFailed; the payload is not returned as a response.
C15_CrcMismatchFails ==
    (xfer.pc = "received" /\ xfer.frames # << >> /\ ~xfer.frames[1].crc_ok)
        => /\ xfer.rcvd.res = "Err"
           /\ EchoAfterReceive.res = "ReceiveFailed"

\* the longest payload a raw frame can carry
MaxFramePayload == U16_MAX - SMP_HEADER_SIZE - 2

\* C10: send_raw_frame (alone, or through send_frame) succeeds for every
\* payload of at most 65535 - 8 - 2 = 65525 bytes and fails with DataTooBig
\* for every payload of 65526 bytes or more.
C10_DataTooBigBoundary ==
    xfer.pc \in {"sent", "received"}
        => xfer.sent.res = IF xfer.len <= MaxFramePayload THEN "Ok" ELSE "DataTooBig"

\* the loop of send_raw_frame ran to its end on this call: one line frame per
\* iteration, the first iteration first, every later one consuming at least
\* one payload byte, the last one exhausting the payload and no earlier one
SendLoopRanToEnd ==
    LET chunks == SendPlan(mtu, Len(data)).chunks
    IN  /\ sendResult = "Ok"
        /\ Len(written) = Len(chunks)
        /\ Len(written) >= 1
        /\ Len(written) <= Len(data) + 1
        /\ chunks[1].first
        /\ \A i \in 2..Len(chunks) : ~chunks[i].first /\ chunks[i].body >= 1
        /\ \A i \in 1..Len(chunks) :
              (chunks[i].off + chunks[i].body = Len(data)) <=> (i = Len(chunks))

\* C39: send_raw_frame terminates for every payload it accepts; absent a
\* write error the first iteration writes one line frame, every later one
\* consumes at least one payload byte, the loop ends as soon as the payload
\* is exhausted, and at least one line frame is written even for an empty
\* payload.
C39_SendTerminates ==
    (tpc # "start" /\ failAt = 0) => SendLoopRanToEnd

\* the same for a transport whose body buffer holds the 10 bytes of length
\* and header (an MTU of 19 or more)
SendTerminatesWithRoomForHeader ==
    (tpc # "start" /\ failAt = 0 /\ body_buffer_len(mtu) >= 2 + SMP_HEADER_SIZE)
        => SendLoopRanToEnd

\* an empty payload and a payload of several line frames were sent whole
SendTerminatesWitness ==
    /\ sendResult = "Ok"
    /\ failAt = 0
    /\ Len(data) = 0 \/ Len(written) >= 3

\* C38: when send_frame or send_raw_frame has failed with DataTooBig, no
\* line frame, and so no byte, has been written to the byte stream.
C38_DataTooBigWritesNothing ==
    (xfer.pc \in {"sent", "received"} /\ xfer.sent.res = "DataTooBig")
        => xfer.sent.lines = 0

\* send_frame accepted a payload of 65526 bytes as data_length and
\* send_raw_frame refused it
C38_Witness ==
    /\ xfer.pc = "sent"
    /\ xfer.via = "send_frame"
    /\ xfer.len = 65526
    /\ xfer.sent = [res |-> "DataTooBig", lines |-> 0]

\* a payload of exactly 65525 bytes was sent by send_raw_frame, in several
\* line frames
C10_Witness ==
    /\ xfer.pc = "sent"
    /\ xfer.via = "send_raw_frame"
    /\ xfer.len = 65525
    /\ xfer.sent.res = "Ok"
    /\ xfer.sent.lines > 1

(***************************************************************************)
(* os_echo (client.rs) end to end: MCUmgrClient over a Connection over a    *)
(* SerialTransport whose byte stream is the echoing device of the tests    *)
(* (EchoSerial).  The device processes its input when it is read from.     *)
(***************************************************************************)
\* the strings echoed: lower-case letters, of every length up to MaxPayloadLen
EchoStrings == { [i \in 1..n |-> 97 + (i % 26)] : n \in 0..MaxPayloadLen }

\* CBOR head of a text string of n bytes
CborTextHead(n) == IF n < 24 THEN << 96 + n >> ELSE << 120, n >>

\* ciborium::into_writer of Echo { d: s }: a map of one pair, key "d"
CborEcho(s) == << 161, 97, 100 >> \o CborTextHead(Len(s)) \o s

\* MCUmgrClient::os_echo: the r field of the response, or the error
os_echo(r) ==
    IF r.res = "Ok" THEN [res |-> "Ok", r |-> r.value.fields]
    ELSE [res |-> r.res, r |-> {}]

EchoInit ==
    /\ mtu \in MinMtu..MaxMtu
    /\ header = << >>
    /\ data \in EchoStrings
    /\ failAt = 0
    /\ written = << >>
    /\ sendResult = "none"
    /\ recvResult = [res |-> "none", bytes |-> << >>]
    /\ img = NoImg
    /\ ft = NoFt
    /\ smp = NoSmp
    /\ lk = NoLk
    /\ tpc = "unused"
    /\ mutex = NoThread
    /\ initSeq \in SeqSamples
    /\ next_seqnum = initSeq
    /\ pc = << >>
    /\ call = << >>
    /\ result = << >>
    /\ ncalls = 0
    /\ exchanges = << >>
    /\ reqSeqs = << >>
    /\ xfer = [pc |-> "start", result |-> os_echo(NoResult)]
    /\ fw = NoFw

\* os_echo -> execute_command: encode, take the sequence number, send_frame
EchoSend ==
    /\ xfer.pc = "start"
    /\ LET payload == CborEcho(data)
           hdr == to_slice(RequestHeader(TRUE, next_seqnum, 0, 0, Len(payload)))
           r == send_raw_frame(mtu, hdr, payload, failAt)
       IN  /\ header' = hdr
           /\ next_seqnum' = wrapping_add(next_seqnum)
           /\ reqSeqs' = Append(reqSeqs, next_seqnum)
           /\ written' = r.lines
           /\ sendResult' = r.res
           /\ xfer' = IF r.res = "Ok" THEN [xfer EXCEPT !.pc = "sent"]
                      ELSE IF r.res = "panic"
                      THEN [pc |-> "panicked", result |-> os_echo(NoResult)]
                      ELSE [pc |-> "done",
                            result |-> os_echo(Returned("SendFailed", r.res, 0, 0, NoOutcome))]
    /\ UNCHANGED << mtu, data, failAt, recvResult, tpc >>
    /\ UNCHANGED << mutex, initSeq, pc, call, result, ncalls, exchanges, fw, auxVars >>

\* receive_frame, the classification of the response, and os_echo's return
EchoReceive ==
    /\ xfer.pc = "sent"
    /\ LET req == Request("command", "Echo", TRUE, 0, 0, Len(CborEcho(data)))
           r == receive_frame(<< >>, TRUE, reqSeqs[Len(reqSeqs)], 0, 0)
       IN  xfer' = [pc |-> "done", result |-> os_echo(AfterReceive(req, r.out))]
    /\ UNCHANGED << framingVars, connVars, fw, auxVars >>

EchoNext == EchoSend \/ EchoReceive

SpecEcho == EchoInit /\ [][EchoNext]_vars

\* C17: against a device that echoes, os_echo(s) returns exactly s, also
\* when request and response span several line frames, and the call
\* advances the connection's sequence number by 1.
C17_EchoReturnsInput ==
    (xfer.pc \in {"done", "panicked"} /\ mtu >= 19)
        => /\ xfer.pc = "done"
           /\ xfer.result.res = "Ok"
           /\ xfer.result.r = {"r"}
           /\ next_seqnum = wrapping_add(initSeq)

(***************************************************************************)
(* firmware_update (client/firmware_update.rs).                            *)
(*                                                                         *)
(* The function talks to the device through the methods of MCUmgrClient;   *)
(* what each of them returns is drawn from the results it can return.      *)
(* Hashes are numbered; 0 stands for an absent hash.  Every request sent   *)
(* and every invocation of the progress callback is appended to fw.trace.  *)
(***************************************************************************)
\* number of different image hashes
NumHashes == 2

NoHash == 0

\* longest firmware image, in bytes
MaxFirmwareLen == 4

\* data bytes of one image upload chunk (the chunk size the frame size allows)
ImageChunkSize == 2

Hashes == 1..NumHashes

\* firmware images, given by what mcuboot::get_image_info finds in them
FirmwareSamples ==
    { [valid |-> TRUE, hash |-> 1, len |-> n] : n \in 1..MaxFirmwareLen }
    \cup { [valid |-> FALSE, hash |-> NoHash, len |-> 1] }

\* mcuboot::get_image_info(Cursor::new(firmware)), as far as firmware_update
\* uses it: the identity hash, or an ImageParseError
ImageInfoOf(firmware) ==
    IF firmware.valid THEN [res |-> "Ok", hash |-> firmware.hash]
    ELSE [res |-> "Err", hash |-> NoHash]

\* an entry of the image state; hash = NoHash is None
ImageEntry(image, slot, hash) == [image |-> image, slot |-> slot, hash |-> hash]

\* image states a device reports, with at most one entry per image and slot
ImageStateSamples ==
    { << >>, << ImageEntry(1, 0, 1), ImageEntry(0, 1, 1) >> }
    \cup { << ImageEntry(0, 0, h) >> : h \in 0..NumHashes }
    \cup { << ImageEntry(0, 1, h), ImageEntry(0, 0, g) >> : h, g \in Hashes }

\* an ExecuteError
ExecErr(kind, version, group, rc) ==
    [kind |-> kind, version |-> version, group |-> group, rc |-> rc]

NoError == ExecErr("none", "", 0, 0)

ExecErrSamples ==
    { ExecErr("ErrorResponse", "V1", 0, 8),
      ExecErr("ErrorResponse", "V2", 0, 8),
      ExecErr("ErrorResponse", "V2", 1, 3),
      ExecErr("ReceiveFailed", "", 0, 0) }

\* ExecuteError::command_not_supported: a device error with v1 rc = 8, or
\* v2 group 0 rc 8
command_not_supported(e) ==
    /\ e.kind = "ErrorResponse"
    /\ e.rc = 8
    /\ (e.version = "V1" \/ e.group = 0)

\* Result<_, ExecuteError> of a client method; value is what Ok carries
ClientOk(value) == [res |-> "Ok", err |-> NoError, value |-> value]

ClientErr(e) == [res |-> "Err", err |-> e, value |-> << >>]

ClientErrors == { ClientErr(e) : e \in ExecErrSamples }

\* names of bootloaders other than MCUboot
OtherBootloaders == { "", "SomeLoader" }

\* os_bootloader_info: BootloaderInfo::MCUboot { .. } or
\* BootloaderInfo::Unknown { name }
BootloaderInfoOutcomes ==
    { ClientOk(<< "MCUboot", "MCUboot" >>) }
    \cup { ClientOk(<< "Unknown", name >>) : name \in OtherBootloaders }
    \cup ClientErrors

\* faulty variant of get_bootloader_type: every bootloader is taken for MCUboot
GetBootloaderTypeAny(info) == [res |-> "Ok", type |-> "McuBoot", name |-> ""]

\* BootloaderInfo::get_bootloader_type
get_bootloader_type(info) ==
    IF info[1] = "MCUboot" THEN [res |-> "Ok", type |-> "McuBoot", name |-> ""]
    ELSE [res |-> "Err", type |-> "none", name |-> info[2]]

\* the String carried by BootloaderNotSupported, in the place of the error
NameError(name) == ExecErr("name", name, 0, 0)

\* image_get_state
GetStateOutcomes == { ClientOk(st) : st \in ImageStateSamples } \cup ClientErrors

\* ImageUpload{off, data, len?, sha?, upgrade?} for the chunk at off: len
\* (0: omitted), sha and upgrade are carried by the chunk at off = 0 only;
\* ok: the device answered without an error; match: the response's match
ImageUploadChunk(firmware, params, off, ok, match) ==
    [kind |-> "chunk", name |-> "ImageUpload", ok |-> ok,
     off |-> off,
     n |-> Min(ImageChunkSize, firmware.len - off),
     len |-> IF off = 0 THEN firmware.len ELSE 0,
     sha |-> off = 0 /\ params.checksum,
     upgrade |-> off = 0 /\ params.upgrade_only,
     match |-> match]

\* a result of image_upload with the chunks sent and the callbacks made
UploadRun(res, err, events) == [res |-> res, err |-> err, events |-> events]

\* image_upload from offset off on: chunk after chunk is sent; a failed chunk
\* ends the upload with its error; the progress callback (if any) is invoked
\* after every chunk and cancels the upload by returning false; a response
\* with match ends it successfully; the upload is done when off = len
RECURSIVE image_upload_from(_, _, _, _)
image_upload_from(firmware, params, has_progress, off) ==
    IF off >= firmware.len THEN { UploadRun("Ok", NoError, << >>) }
    ELSE LET next == off + Min(ImageChunkSize, firmware.len - off)
             sent(m) == ImageUploadChunk(firmware, params, off, TRUE, m)
             shown(go) == [kind |-> "progress", name |-> "Uploading new firmware ...", ok |-> go]
             rest == image_upload_from(firmware, params, has_progress, next)
         IN  { UploadRun("Err", e, << ImageUploadChunk(firmware, params, off, FALSE, FALSE) >>) :
                  e \in ExecErrSamples }
             \cup { UploadRun("Ok", NoError, << sent(TRUE) >>) }
             \cup (IF has_progress
                   THEN { UploadRun("Ok", NoError, << sent(TRUE), shown(TRUE) >>),
                          UploadRun("Cancelled", NoError, << sent(TRUE), shown(FALSE) >>),
                          UploadRun("Cancelled", NoError, << sent(FALSE), shown(FALSE) >>) }
                        \cup { UploadRun(r.res, r.err, << sent(FALSE), shown(TRUE) >> \o r.events) :
                                  r \in rest }
                   ELSE { UploadRun(r.res, r.err, << sent(FALSE) >> \o r.events) : r \in rest })

\* client.image_upload(firmware, None, checksum, upgrade_only, progress)
image_upload(firmware, params, has_progress) ==
    image_upload_from(firmware, params, has_progress, 0)

\* image_set_state and os_system_reset
UnitOutcomes == { ClientOk(<< >>) } \cup ClientErrors

NoClientCall == [res |-> "none", err |-> NoError, value |-> << >>]

\* Result<(), FirmwareUpdateError>; err is the ExecuteError carried
FwResult(res, err) == [res |-> res, err |-> err]

Event(kind, name, ok) == [kind |-> kind, name |-> name, ok |-> ok]

\* faulty variant of Progress: the state queries are not announced
ProgressSkipsQuery(f, msg, go) ==
    IF f.has_progress /\ msg # "Querying device state ..."
    THEN [f EXCEPT !.trace = Append(@, Event("progress", msg, go))]
    ELSE f

\* progress(msg, ..): the callback, if there is one, is invoked and returns go
Progress(f, msg, go) ==
    IF f.has_progress THEN [f EXCEPT !.trace = Append(@, Event("progress", msg, go))]
    ELSE f

\* progress(..)? returns early with ProgressCallbackError
Cancelled(f, go) == f.has_progress /\ ~go

\* a request is sent through the client; ok: the method returned Ok
Sent(f, name, ok) == [f EXCEPT !.trace = Append(@, Event("request", name, ok))]

\* return res
Finish(f, res, err) == [f EXCEPT !.pc = "done", !.result = FwResult(res, err)]

\* faulty variant of ActiveImage: only the first entry is looked at
ActiveImageFirstOnly(image_state) ==
    IF image_state # << >> /\ image_state[1].image = 0 /\ image_state[1].slot = 0
    THEN << image_state[1] >> ELSE << >>

\* image_state.iter().find(|img| img.image == 0 && img.slot == 0)
ActiveImage(image_state) ==
    LET hits == { i \in 1..Len(image_state) :
                     image_state[i].image = 0 /\ image_state[i].slot = 0 }
    IN  IF hits = {} THEN << >>
        ELSE << image_state[CHOOSE i \in hits : \A j \in hits : i <= j] >>

\* image_state.iter().any(|img| img.image == 0 && img.slot == 0
\*                              && img.hash == Some(image_id_hash))
AnyActiveWithHash(image_state, hash) ==
    \E i \in 1..Len(image_state) :
        /\ image_state[i].image = 0
        /\ image_state[i].slot = 0
        /\ image_state[i].hash # NoHash
        /\ image_state[i].hash = hash

FwInit ==
    /\ mtu = ConnMtu
    /\ header = << >>
    /\ data = << >>
    /\ failAt = 0
    /\ written = << >>
    /\ sendResult = "none"
    /\ recvResult = [res |-> "none", bytes |-> << >>]
    /\ img = NoImg
    /\ ft = NoFt
    /\ smp = NoSmp
    /\ lk = NoLk
    /\ tpc = "unused"
    /\ ConnUnused
    /\ xfer = NoXfer
    /\ \E bt \in {"None", "McuBoot"}, sr, fc, hp, cs, uo \in BOOLEAN, fi \in FirmwareSamples :
          fw = [pc |-> "detect",
                params |-> [bootloader_type |-> bt, skip_reboot |-> sr, force_confirm |-> fc,
                            upgrade_only |-> uo, checksum |-> cs],
                has_progress |-> hp,
                firmware |-> fi,
                bootloader_type |-> "none",
                image_state |-> << >>,
                image_id_hash |-> NoHash,
                set_state_error |-> NoError,
                requery |-> NoClientCall,
                bootloader_info |-> NoClientCall,
                trace |-> << >>,
                result |-> FwResult("none", NoError)]

\* lines 111-125: the bootloader type is given, or detected
FwDetect ==
    /\ fw.pc = "detect"
    /\ IF fw.params.bootloader_type # "None"
       THEN fw' = [fw EXCEPT !.bootloader_type = fw.params.bootloader_type, !.pc = "query"]
       ELSE \E go1, go2 \in BOOLEAN, r \in BootloaderInfoOutcomes :
               LET f1 == Progress(fw, "Detecting bootloader ...", go1)
                   f2 == [Sent(f1, "BootloaderInfo", r.res = "Ok") EXCEPT !.bootloader_info = r]
                   f3 == Progress(f2, "Found bootloader", go2)
               IN  fw' = IF Cancelled(fw, go1) THEN Finish(f1, "ProgressCallbackError", NoError)
                         ELSE IF r.res = "Err" THEN Finish(f2, "BootloaderDetectionFailed", r.err)
                         ELSE IF get_bootloader_type(r.value).res = "Err"
                         THEN Finish(f2, "BootloaderNotSupported",
                                     NameError(get_bootloader_type(r.value).name))
                         ELSE IF Cancelled(fw, go2) THEN Finish(f3, "ProgressCallbackError", NoError)
                         ELSE [f3 EXCEPT !.bootloader_type = get_bootloader_type(r.value).type,
                                         !.pc = "query"]
    /\ UNCHANGED << framingVars, connVars, xfer, auxVars >>

\* faulty variant of FwQuery: a failed image-state query is tried again
FwQueryRetry ==
    /\ fw.pc = "query"
    /\ \E r \in GetStateOutcomes :
          LET f2 == Sent(fw, "GetState", r.res = "Ok")
          IN  fw' = IF r.res = "Err"
                    THEN (IF Len(fw.trace) < 4 THEN f2 ELSE Finish(f2, "GetStateFailed", r.err))
                    ELSE [f2 EXCEPT !.image_state = r.value, !.pc = "parse"]
    /\ UNCHANGED << framingVars, connVars, xfer, auxVars >>

\* lines 127-130: the image state is queried
FwQuery ==
    /\ fw.pc = "query"
    /\ \E go \in BOOLEAN, r \in GetStateOutcomes :
          LET f1 == Progress(fw, "Querying device state ...", go)
              f2 == Sent(f1, "GetState", r.res = "Ok")
          IN  fw' = IF Cancelled(fw, go) THEN Finish(f1, "ProgressCallbackError", NoError)
                    ELSE IF r.res = "Err" THEN Finish(f2, "GetStateFailed", r.err)
                    ELSE [f2 EXCEPT !.image_state = r.value, !.pc = "parse"]
    /\ UNCHANGED << framingVars, connVars, xfer, auxVars >>

\* faulty variant of FwParse: a firmware that does not parse is uploaded
FwParseIgnoresError ==
    /\ fw.pc = "parse"
    /\ \E go1, go2 \in BOOLEAN :
          LET f1 == Progress(fw, "Parsing firmware image ...", go1)
              info == ImageInfoOf(fw.firmware)
              f2 == Progress(f1, "Update: ..", go2)
          IN  fw' = IF Cancelled(fw, go1) THEN Finish(f1, "ProgressCallbackError", NoError)
                    ELSE IF Cancelled(fw, go2) THEN Finish(f2, "ProgressCallbackError", NoError)
                    ELSE [f2 EXCEPT !.image_id_hash = info.hash, !.pc = "upload"]
    /\ UNCHANGED << framingVars, connVars, xfer, auxVars >>

\* lines 132-171: the firmware is parsed and compared with the active image
FwParse ==
    /\ fw.pc = "parse"
    /\ \E go1, go2 \in BOOLEAN :
          LET f1 == Progress(fw, "Parsing firmware image ...", go1)
              info == ImageInfoOf(fw.firmware)
              active_image == ActiveImage(fw.image_state)
              f2 == Progress(f1, "Update: ..", go2)
          IN  fw' = IF Cancelled(fw, go1) THEN Finish(f1, "ProgressCallbackError", NoError)
                    ELSE IF info.res = "Err"
                    THEN Finish(f1, "InvalidMcuBootFirmwareImage", NoError)
                    ELSE IF Cancelled(fw, go2) THEN Finish(f2, "ProgressCallbackError", NoError)
                    ELSE IF /\ active_image # << >>
                            /\ active_image[1].hash # NoHash
                            /\ active_image[1].hash = info.hash
                    THEN Finish(f2, "AlreadyInstalled", NoError)
                    ELSE [f2 EXCEPT !.image_id_hash = info.hash, !.pc = "upload"]
    /\ UNCHANGED << framingVars, connVars, xfer, auxVars >>

\* faulty variant of FwUpload: a cancelled upload is reported as a failed one
FwUploadCancelAsFailure ==
    /\ fw.pc = "upload"
    /\ \E go \in BOOLEAN, r \in image_upload(fw.firmware, fw.params, fw.has_progress) :
          LET f1 == Progress(fw, "Uploading new firmware ...", go)
              f2 == Sent(f1, "ImageUpload", r.res = "Ok")
              f3 == [f2 EXCEPT !.trace = @ \o r.events]
          IN  fw' = IF Cancelled(fw, go) THEN Finish(f1, "ProgressCallbackError", NoError)
                    ELSE IF r.res # "Ok" THEN Finish(f3, "ImageUploadFailed", r.err)
                    ELSE [f3 EXCEPT !.pc = "activate"]
    /\ UNCHANGED << framingVars, connVars, xfer, auxVars >>

\* faulty variant of FwUpload: an upload the device cut short with match
\* ends the update
FwUploadMatchEndsUpdate ==
    /\ fw.pc = "upload"
    /\ \E go \in BOOLEAN, r \in image_upload(fw.firmware, fw.params, fw.has_progress) :
          LET f1 == Progress(fw, "Uploading new firmware ...", go)
              f2 == Sent(f1, "ImageUpload", r.res = "Ok")
              f3 == [f2 EXCEPT !.trace = @ \o r.events]
          IN  fw' = IF Cancelled(fw, go) THEN Finish(f1, "ProgressCallbackError", NoError)
                    ELSE IF r.res = "Cancelled"
                    THEN Finish(f3, "ProgressCallbackError", NoError)
                    ELSE IF r.res = "Err" THEN Finish(f3, "ImageUploadFailed", r.err)
                    ELSE IF \E i \in 1..Len(r.events) :
                               r.events[i].kind = "chunk" /\ r.events[i].match
                    THEN Finish(f3, "Ok", NoError)
                    ELSE [f3 EXCEPT !.pc = "activate"]
    /\ UNCHANGED << framingVars, connVars, xfer, auxVars >>

\* lines 173-193: the image is uploaded; the chunks image_upload sends and
\* the callbacks it makes follow the call in fw.trace
FwUpload ==
    /\ fw.pc = "upload"
    /\ \E go \in BOOLEAN, r \in image_upload(fw.firmware, fw.params, fw.has_progress) :
          LET f1 == Progress(fw, "Uploading new firmware ...", go)
              f2 == Sent(f1, "ImageUpload", r.res = "Ok")
              f3 == [f2 EXCEPT !.trace = @ \o r.events]
          IN  fw' = IF Cancelled(fw, go) THEN Finish(f1, "ProgressCallbackError", NoError)
                    ELSE IF r.res = "Cancelled"
                    THEN Finish(f3, "ProgressCallbackError", NoError)
                    ELSE IF r.res = "Err" THEN Finish(f3, "ImageUploadFailed", r.err)
                    ELSE [f3 EXCEPT !.pc = "activate"]
    /\ UNCHANGED << framingVars, connVars, xfer, auxVars >>

\* lines 195-205, 218-220: the image state is set
FwActivate ==
    /\ fw.pc = "activate"
    /\ \E go \in BOOLEAN, r \in UnitOutcomes :
          LET f1 == Progress(fw, "Activating new firmware ...", go)
              f2 == Sent(f1, "SetState", r.res = "Ok")
          IN  fw' = IF Cancelled(fw, go) THEN Finish(f1, "ProgressCallbackError", NoError)
                    ELSE IF r.res = "Ok" THEN [f2 EXCEPT !.pc = "reboot"]
                    ELSE IF fw.bootloader_type = "McuBoot" /\ command_not_supported(r.err)
                    THEN [f2 EXCEPT !.set_state_error = r.err, !.pc = "requery"]
                    ELSE Finish([f2 EXCEPT !.set_state_error = r.err], "SetStateFailed", r.err)
    /\ UNCHANGED << framingVars, connVars, xfer, auxVars >>

\* faulty variant of FwRequery: an answered re-query counts as activation
FwRequeryNoCheck ==
    /\ fw.pc = "requery"
    /\ \E go \in BOOLEAN, r \in GetStateOutcomes :
          LET f1 == Progress(fw, "Querying device state ...", go)
              f2 == [Sent(f1, "GetState", r.res = "Ok") EXCEPT !.requery = r]
          IN  fw' = IF Cancelled(fw, go) THEN Finish(f1, "ProgressCallbackError", NoError)
                    ELSE IF r.res = "Err" THEN Finish(f2, "GetStateFailed", r.err)
                    ELSE [f2 EXCEPT !.pc = "reboot"]
    /\ UNCHANGED << framingVars, connVars, xfer, auxVars >>

\* lines 205-220: set-state is not supported, the image state is queried again
FwRequery ==
    /\ fw.pc = "requery"
    /\ \E go \in BOOLEAN, r \in GetStateOutcomes :
          LET f1 == Progress(fw, "Querying device state ...", go)
              f2 == [Sent(f1, "GetState", r.res = "Ok") EXCEPT !.requery = r]
          IN  fw' = IF Cancelled(fw, go) THEN Finish(f1, "ProgressCallbackError", NoError)
                    ELSE IF r.res = "Err" THEN Finish(f2, "GetStateFailed", r.err)
                    ELSE IF AnyActiveWithHash(r.value, fw.image_id_hash)
                    THEN [f2 EXCEPT !.pc = "reboot"]
                    ELSE Finish(f2, "SetStateFailed", fw.set_state_error)
    /\ UNCHANGED << framingVars, connVars, xfer, auxVars >>

\* faulty variant of FwReboot: skip_reboot is ignored
FwRebootAlways ==
    /\ fw.pc = "reboot"
    /\ \E go \in BOOLEAN, r \in UnitOutcomes :
          LET f1 == Progress(fw, "Triggering device reboot ...", go)
              f2 == Sent(f1, "Reset", r.res = "Ok")
          IN  fw' = IF Cancelled(fw, go) THEN Finish(f1, "ProgressCallbackError", NoError)
                    ELSE IF r.res = "Err" THEN Finish(f2, "RebootFailed", r.err)
                    ELSE Finish(f2, "Ok", NoError)
    /\ UNCHANGED << framingVars, connVars, xfer, auxVars >>

\* lines 223-230: the device is reset unless skip_reboot
FwReboot ==
    /\ fw.pc = "reboot"
    /\ IF fw.params.skip_reboot
       THEN fw' = Finish(fw, "Ok", NoError)
       ELSE \E go \in BOOLEAN, r \in UnitOutcomes :
               LET f1 == Progress(fw, "Triggering device reboot ...", go)
                   f2 == Sent(f1, "Reset", r.res = "Ok")
               IN  fw' = IF Cancelled(fw, go) THEN Finish(f1, "ProgressCallbackError", NoError)
                         ELSE IF r.res = "Err" THEN Finish(f2, "RebootFailed", r.err)
                         ELSE Finish(f2, "Ok", NoError)
    /\ UNCHANGED << framingVars, connVars, xfer, auxVars >>

FwNext ==
    \/ FwDetect
    \/ FwQuery
    \/ FwParse
    \/ FwUpload
    \/ FwActivate
    \/ FwRequery
    \/ FwReboot

SpecFw == FwInit /\ [][FwNext]_vars

(***************************************************************************)
(* Claims on firmware_update.                                              *)
(***************************************************************************)
IsRequest(e) == e.kind = "request"

\* the requests sent to the device so far, in order
Requests == SelectSeq(fw.trace, IsRequest)

\* no invocation of the progress callback has returned false
NoCancel == \A i \in 1..Len(fw.trace) : fw.trace[i].kind = "progress" => fw.trace[i].ok

\* position of a request in the order of the steps
Rank(name) ==
    IF name = "BootloaderInfo" THEN 1
    ELSE IF name = "GetState" THEN 2
    ELSE IF name = "ImageUpload" THEN 3
    ELSE IF name = "SetState" THEN 4
    ELSE 5

\* the error firmware_update returns when the request fails
StepError(name) ==
    IF name = "BootloaderInfo" THEN "BootloaderDetectionFailed"
    ELSE IF name = "GetState" THEN "GetStateFailed"
    ELSE IF name = "ImageUpload" THEN "ImageUploadFailed"
    ELSE IF name = "SetState" THEN "SetStateFailed"
    ELSE "RebootFailed"

DetectsWhenUnset ==
    /\ Requests # << >> =>
          (Requests[1].name = "BootloaderInfo" <=> fw.params.bootloader_type = "None")
    /\ \A i \in 2..Len(Requests) : Requests[i].name # "BootloaderInfo"

\* a call that ended after a failed request returned that step's error (or
\* ProgressCallbackError when the callback cancelled it)
EndsWithStepError ==
    (/\ fw.pc = "done"
     /\ Requests # << >>
     /\ ~Requests[Len(Requests)].ok)
    => /\ fw.result.res \in {StepError(Requests[Len(Requests)].name), "ProgressCallbackError"}
       /\ fw.result.res = "ProgressCallbackError" => ~NoCancel

\* C19 as stated: the requests are issued in the fixed order bootloader-info
\* (only when bootloader_type is unset), image-state get, image upload,
\* image-state set, reset; a request is issued only after every earlier one
\* succeeded, and the first failing one ends the call with its error.
C19_LinearStateMachine ==
    /\ fw.pc # "unused" =>
          /\ \A i, j \in 1..Len(Requests) :
                i < j => /\ Rank(Requests[i].name) < Rank(Requests[j].name)
                         /\ Requests[i].ok
          /\ DetectsWhenUnset
          /\ EndsWithStepError

\* request i is the re-query that follows a failed image-state set
IsRequery(i) ==
    /\ i > 1
    /\ Requests[i].name = "GetState"
    /\ Requests[i - 1].name = "SetState"
    /\ ~Requests[i - 1].ok

\* C19 as amended: the fixed order holds with one exception, the image-state
\* get that follows an image-state set which failed; after that re-query
\* only reset can follow, and only if the re-query succeeded.  Apart from
\* the exception a request is issued only after every earlier one succeeded;
\* a failing request ends the call with its step's error; no request other
\* than image-state get is issued twice.
C19_LinearWithRecovery ==
    /\ fw.pc # "unused" =>
          /\ \A i \in 1..(Len(Requests) - 1) :
                IF IsRequery(i + 1) THEN TRUE
                ELSE IF IsRequery(i)
                THEN Requests[i].ok /\ Requests[i + 1].name = "Reset"
                ELSE /\ Rank(Requests[i].name) < Rank(Requests[i + 1].name)
                     /\ Requests[i].ok
          /\ \A i, j \in 1..Len(Requests) :
                (i < j /\ Requests[i].name = Requests[j].name) => IsRequery(j)
          /\ DetectsWhenUnset
          /\ EndsWithStepError

\* the update went through the recovery case: get, upload, failed set,
\* re-query, reset
C19_Witness ==
    /\ fw.pc = "done"
    /\ fw.result.res = "Ok"
    /\ Len(Requests) = 5
    /\ IsRequery(4)
    /\ Requests[5].name = "Reset"

\* image-state set failed (and the call got past the activation step or
\* ended), the progress callback not having cancelled the call
SetStateHasFailed ==
    /\ fw.pc \in {"reboot", "done"}
    /\ NoCancel
    /\ \E i \in 1..Len(Requests) : Requests[i].name = "SetState" /\ ~Requests[i].ok

\* the activation is treated as successful: the call goes on to the reboot
ActivationTreatedSuccessful ==
    \/ fw.pc = "reboot"
    \/ fw.pc = "done" /\ fw.result.res \in {"Ok", "RebootFailed"}

ResetRequests == { i \in 1..Len(Requests) : Requests[i].name = "Reset" }

\* activation succeeded: image-state set was answered Ok, or it failed and
\* the re-query found the new image at image 0, slot 0
ActivationSucceeded ==
    \/ \E i \in 1..Len(Requests) : Requests[i].name = "SetState" /\ Requests[i].ok
    \/ /\ \E i \in 1..Len(Requests) : Requests[i].name = "SetState"
       /\ fw.requery.res = "Ok"
       /\ AnyActiveWithHash(fw.requery.value, fw.image_id_hash)

\* request i failed and was not made good by the recovery-shell check
FailedStep(i) ==
    /\ ~Requests[i].ok
    /\ ~(Requests[i].name = "SetState" /\ ActivationSucceeded)

Cancellations ==
    { i \in 1..Len(fw.trace) : fw.trace[i].kind = "progress" /\ ~fw.trace[i].ok }

\* C22: once the progress callback has returned false, between steps or
\* between upload chunks, nothing follows that invocation (no request, no
\* chunk, no further invocation) and firmware_update has returned
\* ProgressCallbackError.
C22_CancelEndsUpdate ==
    \A i \in Cancellations :
        /\ i = Len(fw.trace)
        /\ fw.pc = "done"
        /\ fw.result = FwResult("ProgressCallbackError", NoError)

\* the callback returned false after the second chunk of an upload
C22_Witness ==
    /\ Cancellations # {}
    /\ Len(fw.trace) > 3
    /\ fw.trace[Len(fw.trace) - 1].kind = "chunk"
    /\ fw.trace[Len(fw.trace) - 1].off > 0
    /\ fw.result.res = "ProgressCallbackError"

\* the positions of the ImageUpload chunks in fw.trace
Chunks == { i \in 1..Len(fw.trace) : fw.trace[i].kind = "chunk" }

\* the chunks whose response reported match before all bytes were sent
EarlyMatches ==
    { i \in Chunks : /\ fw.trace[i].ok
                     /\ fw.trace[i].match
                     /\ fw.trace[i].off + fw.trace[i].n < fw.firmware.len }

StageMessage(name) ==
    IF name = "BootloaderInfo" THEN "Detecting bootloader ..."
    ELSE IF name = "GetState" THEN "Querying device state ..."
    ELSE IF name = "ImageUpload" THEN "Uploading new firmware ..."
    ELSE IF name = "SetState" THEN "Activating new firmware ..."
    ELSE "Triggering device reboot ..."

\* C31: with a progress callback, every request of firmware_update
\* (bootloader info, state query, upload, activation, state re-query, reset)
\* directly follows an invocation of the callback with the stage message of
\* that step, and every upload chunk after the first directly follows an
\* invocation of the callback for the chunk before it: no request is sent
\* without the callback having been invoked since the previous request.
C31_StageBeforeRequest ==
    fw.has_progress =>
        \A i \in 1..Len(fw.trace) :
            /\ fw.trace[i].kind = "request" =>
                  /\ i > 1
                  /\ fw.trace[i - 1] = Event("progress", StageMessage(fw.trace[i].name), TRUE)
            /\ fw.trace[i].kind = "chunk" =>
                  /\ i > 2
                  /\ IF fw.trace[i].off = 0
                     THEN /\ fw.trace[i - 1].kind = "request"
                          /\ fw.trace[i - 1].name = "ImageUpload"
                     ELSE /\ fw.trace[i - 1] =
                                Event("progress", "Uploading new firmware ...", TRUE)
                          /\ fw.trace[i - 2].kind = "chunk"

\* an update with a progress callback went through the recovery path: a
\* second chunk was uploaded, the state was queried again and the device
\* was reset
C31_Witness ==
    /\ fw.has_progress
    /\ fw.result.res = "Ok"
    /\ \E i \in Chunks : fw.trace[i].off > 0
    /\ Len(Requests) >= 5
    /\ Requests[Len(Requests)].name = "Reset"
    /\ Requests[Len(Requests) - 1].name = "GetState"

\* a request that changes the device: image upload, image-state set, reset
StateChanging(e) ==
    \/ e.kind = "chunk"
    \/ e.kind = "request" /\ e.name \in {"ImageUpload", "SetState", "Reset"}

\* C36: a state-changing request (image upload, image-state set, reset) is
\* sent only after the firmware was parsed successfully and its hash found
\* to differ from the active slot's; with an invalid image only bootloader
\* info and image-state get are ever sent, and the call, once these
\* succeeded and the progress callback did not cancel, fails with
\* InvalidMcuBootFirmwareImage.
C36_NoChangeBeforeParse ==
    /\ (\E i \in 1..Len(fw.trace) : StateChanging(fw.trace[i])) =>
          /\ fw.firmware.valid
          /\ fw.image_id_hash = fw.firmware.hash
          /\ \A a \in 1..Len(fw.image_state) :
                (fw.image_state[a].image = 0 /\ fw.image_state[a].slot = 0)
                    => fw.image_state[a].hash # fw.firmware.hash
          /\ \E i \in 1..Len(fw.trace) : fw.trace[i] = Event("request", "GetState", TRUE)
    /\ ~fw.firmware.valid =>
          /\ \A i \in 1..Len(Requests) : Requests[i].name \in {"BootloaderInfo", "GetState"}
          /\ fw.result.res \in {"none", "ProgressCallbackError", "BootloaderDetectionFailed",
                                 "BootloaderNotSupported", "GetStateFailed",
                                 "InvalidMcuBootFirmwareImage"}
          /\ (fw.pc = "done" /\ NoCancel /\ \A i \in 1..Len(Requests) : Requests[i].ok
                /\ fw.result.res # "BootloaderNotSupported")
                => fw.result.res = "InvalidMcuBootFirmwareImage"

\* an invalid image was refused after the bootloader and the image state
\* had been queried
C36_Witness ==
    /\ ~fw.firmware.valid
    /\ fw.result.res = "InvalidMcuBootFirmwareImage"
    /\ Len(Requests) = 2
    /\ Requests[1].name = "BootloaderInfo"
    /\ Requests[2].name = "GetState"
    /\ fw.has_progress

\* the positions of the bootloader-info requests
BootloaderQueries == { i \in 1..Len(Requests) : Requests[i].name = "BootloaderInfo" }

Caller == 1

\* the invocations of progress(..) in firmware_update, in order, each with
\* the client request that follows it ("none": another progress follows)
Stages ==
    << "BootloaderInfo", "none", "GetState", "none", "none",
       "ImageUpload", "SetState", "Reset" >>

ReentryInit ==
    /\ mtu = ConnMtu
    /\ header = << >>
    /\ data = << >>
    /\ failAt = 0
    /\ written = << >>
    /\ sendResult = "none"
    /\ recvResult = [res |-> "none", bytes |-> << >>]
    /\ img = NoImg
    /\ ft = NoFt
    /\ smp = NoSmp
    /\ lk = NoLk
    /\ tpc = "unused"
    /\ mutex = NoThread
    /\ initSeq \in SeqSamples
    /\ next_seqnum = initSeq
    /\ pc = << >>
    /\ call = << >>
    /\ result = << >>
    /\ ncalls = 0
    /\ exchanges = << >>
    /\ reqSeqs = << >>
    /\ xfer = NoXfer
    /\ fw = [pc |-> "progress", stage |-> 1, in_callback |-> FALSE,
             echoes |-> 0, result |-> "none"]

\* progress(msg, None)?: the callback is invoked; it returns true at once,
\* returns false, or first calls client.os_echo
ReProgress ==
    /\ fw.pc = "progress"
    /\ \E does \in {"true", "false", "os_echo"} :
          fw' = IF does = "true" THEN [fw EXCEPT !.pc = "request"]
                ELSE IF does = "false"
                THEN [fw EXCEPT !.pc = "done", !.result = "ProgressCallbackError"]
                ELSE [fw EXCEPT !.pc = "lock", !.in_callback = TRUE]
    /\ UNCHANGED << framingVars, connVars, xfer, auxVars >>

\* the next client request of firmware_update, if one follows this progress
ReRequest ==
    /\ fw.pc = "request"
    /\ fw' = IF Stages[fw.stage] # "none" THEN [fw EXCEPT !.pc = "lock"]
             ELSE [fw EXCEPT !.pc = "progress", !.stage = @ + 1]
    /\ UNCHANGED << framingVars, connVars, xfer, auxVars >>

\* execute_command, line 76: self.inner.lock().  The caller's thread
\* blocks for ever (or panics) when it holds the mutex itself
ReLock ==
    /\ fw.pc = "lock"
    /\ IF MutexFree(mutex)
       THEN /\ mutex' = Caller
            /\ fw' = [fw EXCEPT !.pc = "exchange"]
       ELSE /\ fw' = [fw EXCEPT !.pc = "stuck"]
            /\ UNCHANGED mutex
    /\ UNCHANGED << next_seqnum, initSeq, pc, call, result, ncalls, exchanges, reqSeqs >>
    /\ UNCHANGED << framingVars, xfer, auxVars >>

\* what follows the return of a client request, or of the callback's os_echo
AfterExchange(f, ok) ==
    IF f.in_callback
    THEN [f EXCEPT !.pc = "request", !.in_callback = FALSE, !.echoes = @ + 1]
    ELSE IF ~ok THEN [f EXCEPT !.pc = "done", !.result = "Err"]
    ELSE IF f.stage = Len(Stages) THEN [f EXCEPT !.pc = "done", !.result = "Ok"]
    ELSE [f EXCEPT !.pc = "progress", !.stage = @ + 1]

\* faulty variant of ReExchange: the guard of a client request is still
\* held when firmware_update goes on
ReExchangeKeepsGuard ==
    /\ fw.pc = "exchange"
    /\ next_seqnum' = wrapping_add(next_seqnum)
    /\ reqSeqs' = Append(reqSeqs, next_seqnum)
    /\ mutex' = IF fw.in_callback THEN DropGuard(Caller) ELSE Caller
    /\ \E ok \in BOOLEAN : fw' = AfterExchange(fw, ok)
    /\ UNCHANGED << initSeq, pc, call, result, ncalls, exchanges >>
    /\ UNCHANGED << framingVars, xfer, auxVars >>

\* execute_command, lines 79-132: the sequence number is taken, the request
\* sent, the response received; the guard is dropped with the return
ReExchange ==
    /\ fw.pc = "exchange"
    /\ next_seqnum' = wrapping_add(next_seqnum)
    /\ reqSeqs' = Append(reqSeqs, next_seqnum)
    /\ mutex' = DropGuard(Caller)
    /\ \E ok \in BOOLEAN : fw' = AfterExchange(fw, ok)
    /\ UNCHANGED << initSeq, pc, call, result, ncalls, exchanges >>
    /\ UNCHANGED << framingVars, xfer, auxVars >>

ReentryNext ==
    \/ ReProgress
    \/ ReRequest
    \/ ReLock
    \/ ReExchange

SpecReentry == ReentryInit /\ [][ReentryNext]_vars

U32(hi, lo) == [hi |-> hi, lo |-> lo]

IMAGE_MAGIC == U32(38643, 47165)

IMAGE_TLV_INFO_MAGIC == 26887

IMAGE_TLV_SHA256 == 16

SHA256_LEN == 32

TLV_INFO_HEADER_SIZE == 4

TLV_ELEMENT_HEADER_SIZE == 4

\* u16::to_le_bytes, u32::to_le_bytes
LE16(n) == << n % 256, n \div 256 >>

LE32(x) == LE16(x.lo) \o LE16(x.hi)

\* u64::from of a u32 (the images have sizes below 2^31)
U64(x) == x.hi * 65536 + x.lo

\* read_exact of n bytes at position pos succeeds
CanRead(image, pos, n) == pos + n <= Len(image)

\* read_u8, read_u16, read_u32 at position pos (little endian)
read_u8(image, pos) == image[pos + 1]

read_u16(image, pos) == image[pos + 1] + 256 * image[pos + 2]

read_u32(image, pos) == U32(read_u16(image, pos + 2), read_u16(image, pos))

\* Result<ImageInfo, ImageParseError>
ImageOk(version, hash) == [res |-> "Ok", version |-> version, hash |-> hash]

ImageErr(e) == [res |-> e, version |-> << >>, hash |-> << >>]

\* faulty variant of IsIdHash: the length of the entry is not looked at
IsIdHashAnyLen(it_type, it_len) == it_type = IMAGE_TLV_SHA256

\* it_type == IMAGE_TLV_SHA256 && usize::from(it_len) == SHA256_LEN
IsIdHash(it_type, it_len) == it_type = IMAGE_TLV_SHA256 /\ it_len = SHA256_LEN

\* faulty variant of SkipTo: the value is skipped from before the entry header
SkipToShort(pos, it_len) == pos + it_len

\* seek_relative(it_len) after the 4 bytes of the entry header read at pos
SkipTo(pos, it_len) == pos + TLV_ELEMENT_HEADER_SIZE + it_len

\* the loop over the TLV entries (lines 133-162); id_hash is << >> for None
RECURSIVE TlvWalk(_, _, _, _, _, _)
TlvWalk(image, pos, tlv_read, it_tlv_tot, id_hash, ih_ver) ==
    IF tlv_read + TLV_INFO_HEADER_SIZE + TLV_ELEMENT_HEADER_SIZE <= it_tlv_tot
    THEN IF ~CanRead(image, pos, 4) THEN ImageErr("ReadFailed")
         ELSE LET it_type == read_u8(image, pos)
                  it_len == read_u16(image, pos + 2)
              IN  IF IsIdHash(it_type, it_len)
                  THEN IF ~CanRead(image, pos + 4, SHA256_LEN) THEN ImageErr("ReadFailed")
                       ELSE TlvWalk(image, pos + 4 + SHA256_LEN, tlv_read + it_len + 4,
                                    it_tlv_tot,
                                    << SubSeq(image, pos + 5, pos + 4 + SHA256_LEN) >>,
                                    ih_ver)
                  ELSE TlvWalk(image, SkipTo(pos, it_len), tlv_read + it_len + 4,
                               it_tlv_tot, id_hash, ih_ver)
    ELSE IF id_hash # << >> THEN ImageOk(ih_ver, id_hash[1])
    ELSE ImageErr("IdHashMissing")

\* get_image_info(Cursor::new(image))
get_image_info(image) ==
    IF ~CanRead(image, 0, 4) THEN ImageErr("ReadFailed")
    ELSE IF read_u32(image, 0) # IMAGE_MAGIC THEN ImageErr("UnknownImageType")
    ELSE IF ~CanRead(image, 4, 24) THEN ImageErr("ReadFailed")
    ELSE LET ih_hdr_size == read_u16(image, 8)
             ih_protect_tlv_size == read_u16(image, 10)
             ih_img_size == read_u32(image, 12)
             ih_ver == [major |-> read_u8(image, 20),
                        minor |-> read_u8(image, 21),
                        revision |-> read_u16(image, 22),
                        build_num |-> read_u32(image, 24)]
             tlv == ih_hdr_size + ih_protect_tlv_size + U64(ih_img_size)
         IN  IF ~CanRead(image, tlv, 2) THEN ImageErr("ReadFailed")
             ELSE IF read_u16(image, tlv) # IMAGE_TLV_INFO_MAGIC THEN ImageErr("TlvMissing")
             ELSE IF ~CanRead(image, tlv + 2, 2) THEN ImageErr("ReadFailed")
             ELSE TlvWalk(image, tlv + 4, 0, read_u16(image, tlv + 2), << >>, ih_ver)

\* most TLV entries of an image
MaxTlvEntries == 2

\* n bytes of value b
Fill(n, b) == [i \in 1..n |-> b]

\* a TLV entry: type, pad, len = Len(value), value
TlvEntry(type, value) == [type |-> type, value |-> value]

\* two identity hashes, an entry of type 0x10 that is not 32 bytes long, an
\* entry of another type that is, a short entry and an empty one
TlvEntrySamples ==
    { TlvEntry(IMAGE_TLV_SHA256, [i \in 1..SHA256_LEN |-> i]),
      TlvEntry(IMAGE_TLV_SHA256, <<16, 0, 32, 0>>),
      TlvEntry(32, Fill(SHA256_LEN, 170)),
      TlvEntry(48, <<7, 7>>),
      TlvEntry(1, << >>) }

RECURSIVE TlvLists(_)
TlvLists(n) ==
    IF n = 0 THEN { << >> }
    ELSE LET shorter == TlvLists(n - 1)
         IN  shorter \cup { Append(l, e) : l \in { x \in shorter : Len(x) = n - 1 },
                                           e \in TlvEntrySamples }

\* image headers: magic, ih_hdr_size, ih_protect_tlv_size, ih_img_size and
\* version
ImageHeaderSamples ==
    { [magic |-> m, hdr_size |-> l[1], protect |-> l[2], img_size |-> U32(0, l[3]), ver |-> v] :
        m \in { IMAGE_MAGIC, U32(38643, 47164) },
        l \in { <<32, 0, 0>>, <<32, 2, 3>>, <<28, 0, 1>> },
        v \in { [major |-> 1, minor |-> 2, revision |-> 3, build_num |-> U32(0, 0)],
                [major |-> 0, minor |-> 9, revision |-> 258, build_num |-> U32(1, 4)] } }

\* the 28 header bytes get_image_info reads
HeaderBytes(h) ==
    LE32(h.magic) \o <<0, 0, 0, 0>> \o LE16(h.hdr_size) \o LE16(h.protect)
    \o LE32(h.img_size) \o <<0, 0, 0, 0>>
    \o << h.ver.major, h.ver.minor >> \o LE16(h.ver.revision) \o LE32(h.ver.build_num)

\* where the TLV info header is looked for
TlvOffset(h) == h.hdr_size + h.protect + U64(h.img_size)

EntryBytes(e) == << e.type, 0 >> \o LE16(Len(e.value)) \o e.value

RECURSIVE EntriesBytes(_)
EntriesBytes(entries) ==
    IF entries = << >> THEN << >>
    ELSE EntryBytes(Head(entries)) \o EntriesBytes(Tail(entries))

\* offset of entry i from the end of the TLV info header
RECURSIVE EntryStart(_, _)
EntryStart(entries, i) ==
    IF i = 1 THEN 0
    ELSE EntryStart(entries, i - 1) + TLV_ELEMENT_HEADER_SIZE + Len(entries[i - 1].value)

\* it_tlv_tot of a TLV area holding exactly the entries
ExactTot(entries) == TLV_INFO_HEADER_SIZE + Len(EntriesBytes(entries))

\* the whole file: header, padding and image body, TLV info header, entries
ImageFile(h, tlv_magic, tot, entries) ==
    HeaderBytes(h) \o Fill(TlvOffset(h) - 28, 238)
    \o LE16(tlv_magic) \o LE16(tot) \o EntriesBytes(entries)

\* bytes a TLV area may hold after its last entry, too few for the header of
\* another one
TrailingBytes == 2

\* the first keep bytes of the file
Truncated(file, keep) == SubSeq(file, 1, Min(keep, Len(file)))

ImageInit ==
    /\ mtu = MinMtu
    /\ header = << >>
    /\ data = << >>
    /\ failAt = 0
    /\ written = << >>
    /\ sendResult = "none"
    /\ recvResult = [res |-> "none", bytes |-> << >>]
    /\ tpc = "unused"
    /\ ConnUnused
    /\ xfer = NoXfer
    /\ fw = NoFw
    /\ ft = NoFt
    /\ smp = NoSmp
    /\ lk = NoLk
    /\ \E h \in ImageHeaderSamples, tlv_magic \in { IMAGE_TLV_INFO_MAGIC, 26888 },
          entries \in TlvLists(MaxTlvEntries) :
          \E tot \in { ExactTot(entries), ExactTot(entries) - 1, TLV_INFO_HEADER_SIZE,
                        ExactTot(entries) + TrailingBytes } :
             LET file == ImageFile(h, tlv_magic, tot, entries)
                         \o Fill(tot - ExactTot(entries), 255)
             IN  \E keep \in { Len(file), Len(file) - 1, TlvOffset(h) + 3, 27, 3 } :
                    img = [pc |-> "given", h |-> h, tlv_magic |-> tlv_magic, tot |-> tot,
                           entries |-> entries, keep |-> Min(keep, Len(file)),
                           image |-> Truncated(file, keep),
                           result |-> ImageErr("none")]

\* get_image_info is called on the file
ImageParse ==
    /\ img.pc = "given"
    /\ img' = [img EXCEPT !.pc = "parsed", !.result = get_image_info(img.image)]
    /\ UNCHANGED << framingVars, connVars, xfer, fw, ft, smp, lk >>

ImageNext == ImageParse

SpecImage == ImageInit /\ [][ImageNext]_vars

(***************************************************************************)
(* Claims on get_image_info, stated on the parts the file was built from.  *)
(***************************************************************************)
HeaderMagicOk == img.h.magic = IMAGE_MAGIC

TlvMagicOk == img.tlv_magic = IMAGE_TLV_INFO_MAGIC

\* entry i starts inside the TLV area: its header fits into it_tlv_tot
InTlvArea(i) ==
    EntryStart(img.entries, i) + TLV_INFO_HEADER_SIZE + TLV_ELEMENT_HEADER_SIZE <= img.tot

\* entry i is an identity hash: type 0x10, length 32
IsIdHashEntry(i) ==
    img.entries[i].type = IMAGE_TLV_SHA256 /\ Len(img.entries[i].value) = SHA256_LEN

IdHashEntries == { i \in 1..Len(img.entries) : InTlvArea(i) /\ IsIdHashEntry(i) }

\* the end of the last byte get_image_info reads of entry i: its header,
\* and its value when it is an identity hash
ReadEnd(i) ==
    TlvOffset(img.h) + TLV_INFO_HEADER_SIZE + EntryStart(img.entries, i)
    + TLV_ELEMENT_HEADER_SIZE + (IF IsIdHashEntry(i) THEN SHA256_LEN ELSE 0)

\* the file ends before a byte of the TLV entries that is read
EntryCutOff == \E i \in 1..Len(img.entries) : InTlvArea(i) /\ img.keep < ReadEnd(i)

\* the file ends before a byte that get_image_info reads
ReadHitsEnd ==
    \/ img.keep < 4
    \/ /\ HeaderMagicOk
       /\ \/ img.keep < TlvOffset(img.h) + 2
          \/ TlvMagicOk /\ (img.keep < TlvOffset(img.h) + 4 \/ EntryCutOff)

WellFormedImage ==
    /\ HeaderMagicOk
    /\ TlvMagicOk
    /\ img.tot = ExactTot(img.entries)
    /\ img.keep = TlvOffset(img.h) + img.tot
    /\ \E i \in 1..Len(img.entries) : IdHashEntries = {i}

\* C26: for a well-formed image get_image_info returns the version of the
\* header and the 32 value bytes of the identity hash entry, wherever the
\* entry sits among the TLV entries.
C26_VersionAndHash ==
    (img.pc = "parsed" /\ WellFormedImage) =>
        \A i \in IdHashEntries :
            img.result = ImageOk(img.h.ver, img.entries[i].value)

\* the identity hash was returned from behind an entry of another length
C26_Witness ==
    /\ img.pc = "parsed"
    /\ WellFormedImage
    /\ IdHashEntries = {2}
    /\ img.entries[1].value # << >>
    /\ img.result.res = "Ok"
    /\ img.result.version.revision = 258

\* the TLV area declares more bytes than its entries take, and the bytes
\* left over cannot hold the header of a further entry
TrailingGarbage ==
    /\ img.tot > ExactTot(img.entries)
    /\ img.tot - ExactTot(img.entries) < TLV_ELEMENT_HEADER_SIZE

\* C32: get_image_info does not return Ok for an image whose it_tlv_tot
\* leaves bytes after the last complete TLV entry that cannot form a further
\* entry (trailing garbage), and it reads no entry header that does not fit
\* into it_tlv_tot.
C32_TrailingGarbageRejected ==
    (img.pc = "parsed" /\ HeaderMagicOk /\ TlvMagicOk /\ TrailingGarbage)
        => /\ img.result.res # "Ok"
           /\ img.result.res = "ReadFailed" => ReadHitsEnd

(***************************************************************************)
(* SpecTlvWalk: the loop over the TLV entries of get_image_info, one step   *)
(* per iteration, on a reader (impl Read + Seek) that may deliver any entry *)
(* header and may fail at any read or seek.  img is                         *)
(* [pc, it_tlv_tot, tlv_read, iterations, id_hash, result].                 *)
(***************************************************************************)
\* largest it_tlv_tot whose walks are followed over short entries
MaxTlvTot == 16

\* it_tlv_tot as read from the file (u16)
TlvTotSamples == 0..MaxTlvTot \cup { U16_MAX }

\* it_len as read from the file (u16): short entries in a short TLV area,
\* the longest ones in the longest area
TlvLenSamples(it_tlv_tot) ==
    IF it_tlv_tot <= MaxTlvTot THEN { 0, 1, SHA256_LEN }
    ELSE { U16_MAX - 3 * TLV_ELEMENT_HEADER_SIZE, U16_MAX }

\* faulty variant of TlvAdvance: the entry header is not counted
TlvAdvanceNoHeader(tlv_read, it_len) == tlv_read + it_len

\* tlv_read += u32::from(it_len) + 4 (the sum is kept unbounded here and the
\* claim on the 32-bit counter is that it stays below 2^32)
TlvAdvance(tlv_read, it_len) == tlv_read + it_len + 4

\* while tlv_read + TLV_INFO_HEADER_SIZE + TLV_ELEMENT_HEADER_SIZE <= it_tlv_tot
TlvLoopCondition ==
    img.tlv_read + TLV_INFO_HEADER_SIZE + TLV_ELEMENT_HEADER_SIZE <= img.it_tlv_tot

TlvWalkInit ==
    /\ mtu = MinMtu
    /\ header = << >>
    /\ data = << >>
    /\ failAt = 0
    /\ written = << >>
    /\ sendResult = "none"
    /\ recvResult = [res |-> "none", bytes |-> << >>]
    /\ tpc = "unused"
    /\ ConnUnused
    /\ xfer = NoXfer
    /\ fw = NoFw
    /\ ft = NoFt
    /\ smp = NoSmp
    /\ lk = NoLk
    /\ \E tot \in TlvTotSamples :
          img = [pc |-> "loop", it_tlv_tot |-> tot, tlv_read |-> 0, iterations |-> 0,
                 id_hash |-> FALSE, result |-> "none"]

\* one pass through the loop body: the entry header is read, the value is
\* read or skipped, tlv_read is advanced; a failing read or seek returns
TlvWalkStep ==
    /\ img.pc = "loop"
    /\ TlvLoopCondition
    /\ \E header_read, value_read \in BOOLEAN,
          it_type \in { IMAGE_TLV_SHA256, 1 },
          it_len \in TlvLenSamples(img.it_tlv_tot) :
          img' = IF ~(header_read /\ value_read)
                 THEN [img EXCEPT !.pc = "done", !.result = "ReadFailed",
                                  !.iterations = @ + 1]
                 ELSE [img EXCEPT !.tlv_read = TlvAdvance(@, it_len),
                                  !.iterations = @ + 1,
                                  !.id_hash = @ \/ IsIdHash(it_type, it_len)]
    /\ UNCHANGED << framingVars, connVars, xfer, fw, ft, smp, lk >>

\* the loop condition is false: the function returns
TlvWalkExit ==
    /\ img.pc = "loop"
    /\ ~TlvLoopCondition
    /\ img' = [img EXCEPT !.pc = "done",
                          !.result = IF img.id_hash THEN "Ok" ELSE "IdHashMissing"]
    /\ UNCHANGED << framingVars, connVars, xfer, fw, ft, smp, lk >>

TlvWalkNext == TlvWalkStep \/ TlvWalkExit

\* the function runs on: a pass of the loop that is possible is taken
SpecTlvWalk == TlvWalkInit /\ [][TlvWalkNext]_vars /\ WF_vars(TlvWalkNext)

\* C40: the TLV walk of get_image_info terminates for every it_tlv_tot and
\* every sequence of entry lengths, zero included: every iteration that does
\* not return advances tlv_read by at least 4, the loop body runs at most
\* it_tlv_tot / 4 times, and tlv_read stays below 2^32.
C40_TlvWalkTerminates ==
    /\ []( /\ img.iterations <= img.it_tlv_tot \div 4
           /\ img.tlv_read \div 65536 < 65536
           /\ img.tlv_read >= 0 )
    /\ [][ (img.pc = "loop" /\ img'.pc = "loop")
              => img'.tlv_read >= img.tlv_read + 4 ]_vars
    /\ <>(img.pc = "done")

\* a walk over entries of length zero ran as often as it_tlv_tot allows and
\* returned
C40_Witness ==
    /\ img.pc = "done"
    /\ img.result = "IdHashMissing"
    /\ img.it_tlv_tot >= MaxTlvTot
    /\ img.it_tlv_tot <= MaxTlvTot + 3
    /\ img.iterations = (img.it_tlv_tot - TLV_INFO_HEADER_SIZE) \div 4
    /\ img.tlv_read = 4 * img.iterations

(***************************************************************************)
(* SpecFt: one chunked file transfer, fs_file_upload or fs_file_download,  *)
(* against a device that answers every request (commands/fs.rs for the     *)
(* requests, the responses and the chunk size).                            *)
(***************************************************************************)
\* longest file, in bytes
MaxFileLen == 4

\* most requests of one transfer
MaxFtRequests == 3

\* smallest SMP frame size the client is configured with
MinFrameSize == 60

FrameSizes == MinFrameSize..(MinFrameSize + 1)

\* len: None
NoLen == -1

MGMT_HDR_SIZE == 8

MCUMGR_GRP_FS_MAX_OFFSET_LEN == 8

CBOR_AND_OTHER_HDR ==
    MGMT_HDR_SIZE + (9 + 1) + (1 + 3 + MCUMGR_GRP_FS_MAX_OFFSET_LEN)
    + (1 + 4 + MCUMGR_GRP_FS_MAX_OFFSET_LEN) + (1 + 2 + 1)
    + (1 + 3 + MCUMGR_GRP_FS_MAX_OFFSET_LEN)

\* faulty variant of file_upload_max_data_chunk_size: only the SMP header is
\* taken off
ChunkSizeHeaderOnly(smp_frame_size) == smp_frame_size - MGMT_HDR_SIZE

\* file_upload_max_data_chunk_size, for frame sizes of at least
\* CBOR_AND_OTHER_HDR
file_upload_max_data_chunk_size(smp_frame_size) == smp_frame_size - CBOR_AND_OTHER_HDR

\* the content of a file of n bytes
FileBytes(n) == [i \in 1..n |-> i]

\* FileUpload { off, data, name, len }
FileUpload(off, bytes, len) == [off |-> off, data |-> bytes, len |-> len]

\* FileDownload { off, name }
FileDownload(off) == [off |-> off, data |-> << >>, len |-> NoLen]

\* a response as the device sent it: the fields present, off, data, len
Response(fields, off, bytes, len) ==
    [fields |-> fields, off |-> off, data |-> bytes, len |-> len]

\* faulty variant of from_reader_FileDownloadResponse: len is required
FromReaderLenRequired(resp) == {"off", "data", "len"} \subseteq resp.fields

\* ciborium::from_reader::<FileDownloadResponse>: off and data are
\* required, len is an Option
from_reader_FileDownloadResponse(resp) == {"off", "data"} \subseteq resp.fields

\* ciborium::from_reader::<FileUploadResponse>: off is required
from_reader_FileUploadResponse(resp) == "off" \in resp.fields

FtResult(res) == [res |-> res]

\* longest file name of a transfer, in bytes
MaxNameLen == 28

\* lengths of the file names: "/" and a path of MaxNameLen bytes
NameLens == {1, MaxNameLen}

\* bytes ciborium writes for the head of an item with argument n (an
\* unsigned integer, or the length of a byte or text string)
CborHeadLen(n) ==
    IF n < 24 THEN 1 ELSE IF n < 256 THEN 2 ELSE IF n < 65536 THEN 3 ELSE 5

\* a byte or text string of n bytes
CborStringLen(n) == CborHeadLen(n) + n

\* the SMP frame of a FileUpload request: the 8 header bytes and the CBOR
\* map with the keys "off", "data", "name" and, when len is Some, "len"
FileUploadFrameLen(req, name_len) ==
    SMP_HEADER_SIZE + 1
    + CborStringLen(3) + CborHeadLen(req.off)
    + CborStringLen(4) + CborStringLen(Len(req.data))
    + CborStringLen(4) + CborStringLen(name_len)
    + (IF req.len = NoLen THEN 0 ELSE CborStringLen(3) + CborHeadLen(req.len))

FtStart(op, total_len, frame_size, has_progress) ==
    [pc |-> "loop", op |-> op, input |-> FileBytes(total_len), total_len |-> total_len,
     frame_size |-> frame_size, has_progress |-> has_progress,
     off |-> 0, reqs |-> << >>, resps |-> << >>, sink |-> << >>,
     name_len |-> 1, result |-> FtResult("none")]

FtInit ==
    /\ mtu = ConnMtu
    /\ header = << >>
    /\ data = << >>
    /\ failAt = 0
    /\ written = << >>
    /\ sendResult = "none"
    /\ recvResult = [res |-> "none", bytes |-> << >>]
    /\ tpc = "unused"
    /\ ConnUnused
    /\ xfer = NoXfer
    /\ fw = NoFw
    /\ img = NoImg
    /\ smp = NoSmp
    /\ lk = NoLk
    /\ \E hp \in BOOLEAN :
          \/ \E n \in 0..MaxFileLen, fs \in FrameSizes, nl \in NameLens :
                ft = [FtStart("upload", n, fs, hp) EXCEPT !.name_len = nl]
          \/ ft = FtStart("download", NoLen, MinFrameSize, hp)

\* the transfer ends with res
FtFinish(f, res) == [f EXCEPT !.pc = "done", !.result = FtResult(res)]

\* what the device may answer to a FileUpload: an error, or a response
\* with (or without) an offset inside the file
UploadResponses(f) ==
    { Response({"off"}, o, << >>, NoLen) : o \in 0..f.total_len }
    \cup { Response({}, 0, << >>, NoLen) }

\* one iteration of fs_file_upload: a chunk is sent, the response's off is
\* taken over, the progress callback is invoked
FtUploadChunk ==
    /\ ft.pc = "loop"
    /\ ft.op = "upload"
    /\ ft.off # ft.total_len
    /\ Len(ft.reqs) < MaxFtRequests
    /\ LET k == Min(file_upload_max_data_chunk_size(ft.frame_size), ft.total_len - ft.off)
           req == FileUpload(ft.off, SubSeq(ft.input, ft.off + 1, ft.off + k),
                             IF ft.off = 0 THEN ft.total_len ELSE NoLen)
           f1 == [ft EXCEPT !.reqs = Append(@, req)]
       IN  \/ \E e \in {"ErrorResponse", "ReceiveFailed"} : ft' = FtFinish(f1, e)
           \/ \E resp \in UploadResponses(ft), go \in BOOLEAN :
                 LET f2 == [f1 EXCEPT !.resps = Append(@, resp), !.off = resp.off]
                 IN  ft' = IF ~from_reader_FileUploadResponse(resp)
                           THEN FtFinish([f1 EXCEPT !.resps = Append(@, resp)], "DecodeFailed")
                           ELSE IF ft.has_progress /\ ~go
                           THEN FtFinish(f2, "ProgressCallbackError")
                           ELSE f2
    /\ UNCHANGED << framingVars, connVars, xfer, fw, img, smp, lk >>

\* the upload loop ends: off == total_len
FtUploadDone ==
    /\ ft.pc = "loop"
    /\ ft.op = "upload"
    /\ ft.off = ft.total_len
    /\ ft' = FtFinish(ft, "Ok")
    /\ UNCHANGED << framingVars, connVars, xfer, fw, img, smp, lk >>

\* most data bytes the device puts into one FileDownload response
MaxDownloadChunk == 2

\* what the device may answer to a FileDownload at offset off of a file of
\* total bytes: up to MaxDownloadChunk bytes from that offset (possibly
\* none), with or without len and with or without the required fields
DownloadResponses(off, total, first) ==
    { Response(fields, off, SubSeq(FileBytes(total), off + 1, off + n),
               IF "len" \in fields THEN total ELSE NoLen) :
        n \in 0..Min(MaxDownloadChunk, total - off),
        fields \in { {"off", "data", "len"}, {"off", "data"}, {"off", "len"} } }

\* one iteration of fs_file_download: the chunk at off is requested, the
\* first response must carry len, the data is appended to the sink and off
\* advances by its length, the progress callback is invoked
FtDownloadChunk ==
    /\ ft.pc = "loop"
    /\ ft.op = "download"
    /\ ft.off # ft.total_len
    /\ Len(ft.reqs) < MaxFtRequests
    /\ LET first == ft.resps = << >>
           f1 == [ft EXCEPT !.reqs = Append(@, FileDownload(ft.off))]
       IN  \/ \E e \in {"ErrorResponse", "ReceiveFailed"} : ft' = FtFinish(f1, e)
           \/ \E total \in (IF first THEN 0..MaxFileLen ELSE {ft.total_len}), go \in BOOLEAN :
                 \E resp \in DownloadResponses(ft.off, total, first) :
                    LET seen == [f1 EXCEPT !.resps = Append(@, resp)]
                        f2 == [seen EXCEPT !.sink = @ \o resp.data,
                                           !.off = @ + Len(resp.data),
                                           !.total_len = IF first THEN resp.len ELSE @]
                    IN  ft' = IF ~from_reader_FileDownloadResponse(resp)
                              THEN FtFinish(seen, "DecodeFailed")
                              ELSE IF first /\ resp.len = NoLen
                              THEN FtFinish(seen, "DecodeFailed")
                              ELSE IF ft.has_progress /\ ~go
                              THEN FtFinish(f2, "ProgressCallbackError")
                              ELSE f2
    /\ UNCHANGED << framingVars, connVars, xfer, fw, img, smp, lk >>

\* the download loop ends: off == total
FtDownloadDone ==
    /\ ft.pc = "loop"
    /\ ft.op = "download"
    /\ ft.off = ft.total_len
    /\ ft' = FtFinish(ft, "Ok")
    /\ UNCHANGED << framingVars, connVars, xfer, fw, img, smp, lk >>

FtNext ==
    \/ FtUploadChunk
    \/ FtUploadDone
    \/ FtDownloadChunk
    \/ FtDownloadDone

SpecFt == FtInit /\ [][FtNext]_vars

(***************************************************************************)
(* Claims on the file transfers.                                           *)
(***************************************************************************)
\* max_data_chunk(frame_size) = frame_size - overhead, the overhead being
\* SMP header + data-bytes tag + off field + len field + name-length byte +
\* off repeat
MaxDataChunk(frame_size) ==
    frame_size - (8 + (9 + 1) + (1 + 3 + 8) + (1 + 4 + 8) + (1 + 2 + 1) + (1 + 3 + 8))

C33_FrameSizeBudget ==
    ft.op = "upload" =>
        \A i \in 1..Len(ft.reqs) :
            FileUploadFrameLen(ft.reqs[i], ft.name_len) <= ft.frame_size

\* the data of the first n responses, in order
RECURSIVE DataOf(_, _)
DataOf(resps, n) == IF n = 0 THEN << >> ELSE DataOf(resps, n - 1) \o resps[n].data

\* the responses whose data was taken: all but a last one that was refused
Accepted ==
    IF ft.result.res = "DecodeFailed" THEN Len(ft.resps) - 1 ELSE Len(ft.resps)

SequenceNumSamples == {0, 128, 255}
GroupSamples == {0, 1, 258, 65535}
IdSamples == {0, 1, 255}
DataLenSamples == {0, 1, 255, 256, U16_MAX, U16_MAX + 1}

HeaderInit ==
    /\ mtu = ConnMtu
    /\ header = << >>
    /\ data = << >>
    /\ failAt = 0
    /\ written = << >>
    /\ sendResult = "none"
    /\ recvResult = [res |-> "none", bytes |-> << >>]
    /\ tpc = "unused"
    /\ ConnUnused
    /\ xfer = NoXfer
    /\ fw = NoFw
    /\ img = NoImg
    /\ ft = NoFt
    /\ lk = NoLk
    /\ \E w \in BOOLEAN, s \in SequenceNumSamples, g \in GroupSamples, c \in IdSamples,
          l \in DataLenSamples :
          smp = [pc |-> "start", write_operation |-> w, sequence_num |-> s,
                 group_id |-> g, command_id |-> c, len |-> l,
                 res |-> "none", header_data |-> << >>,
                 decoded |-> SmpHeader(0, 0, 0, 0, 0, 0, 0, 0)]

\* faulty variant of HeaderOfFrame: data_length counts the two CRC bytes too
HeaderOfFrameWithCrc(write_operation, sequence_num, group_id, command_id, len) ==
    IF len > U16_MAX THEN [res |-> "DataTooBig", header_data |-> << >>]
    ELSE [res |-> "Ok",
          header_data |-> to_slice(RequestHeader(write_operation, sequence_num,
                                                 group_id, command_id, len + 2))]

\* send_frame up to the call of send_raw_frame: data.len() must fit the u16
\* data_length, the header is built and written into header_data
HeaderOfFrame(write_operation, sequence_num, group_id, command_id, len) ==
    IF len > U16_MAX THEN [res |-> "DataTooBig", header_data |-> << >>]
    ELSE [res |-> "Ok",
          header_data |-> to_slice(RequestHeader(write_operation, sequence_num,
                                                 group_id, command_id, len))]

\* send_frame(write_operation, sequence_num, group_id, command_id, data)
\* with |data| = smp.len
HeaderSend ==
    /\ smp.pc = "start"
    /\ LET r == HeaderOfFrame(smp.write_operation, smp.sequence_num, smp.group_id,
                              smp.command_id, smp.len)
       IN  smp' = [smp EXCEPT !.pc = IF r.res = "Ok" THEN "built" ELSE "failed",
                              !.res = r.res, !.header_data = r.header_data]
    /\ UNCHANGED << framingVars, connVars, xfer, fw, img, ft, lk >>

\* the 8 bytes are decoded with SmpHeader's layout
HeaderDecode ==
    /\ smp.pc = "built"
    /\ smp' = [smp EXCEPT !.pc = "decoded", !.decoded = from_bytes(smp.header_data)]
    /\ UNCHANGED << framingVars, connVars, xfer, fw, img, ft, lk >>

HeaderNext == HeaderSend \/ HeaderDecode

SpecHeader == HeaderInit /\ [][HeaderNext]_vars

\* C30: the header send_frame hands to send_raw_frame is 8 bytes: the first
\* holds res = 0 in its three high bits, ver = 01 in the next two and
\* op (2 for a write, 0 for a read) in the low three, the second (flags) is
\* 0, then data_length = the length of the payload (the CRC not counted),
\* group_id (both big-endian), sequence_num and command_id; decoding the 8
\* bytes yields these field values, and encoding the decoded header yields
\* the 8 bytes again.
C30_HeaderLayout ==
    /\ smp.pc \in {"built", "decoded"} =>
          /\ smp.len <= U16_MAX
          /\ Len(smp.header_data) = SMP_HEADER_SIZE
          /\ smp.header_data =
                << 8 + (IF smp.write_operation THEN 2 ELSE 0), 0,
                   smp.len \div 256, smp.len % 256,
                   smp.group_id \div 256, smp.group_id % 256,
                   smp.sequence_num, smp.command_id >>
    /\ smp.pc = "decoded" =>
          /\ smp.decoded = [res |-> 0, ver |-> 1,
                            op |-> IF smp.write_operation THEN 2 ELSE 0,
                            flags |-> 0, data_length |-> smp.len,
                            group_id |-> smp.group_id,
                            sequence_num |-> smp.sequence_num,
                            command_id |-> smp.command_id]
          /\ to_slice(smp.decoded) = smp.header_data

\* the header of a write with a 256-byte payload for group 0x0102 was built
\* and decoded
C30_Witness ==
    /\ smp.pc = "decoded"
    /\ smp.write_operation
    /\ smp.len = 256
    /\ smp.group_id = 258
    /\ smp.sequence_num = 128
    /\ smp.header_data = << 10, 0, 1, 0, 1, 2, 128, 0 >>

(***************************************************************************)
(* file_upload_max_data_chunk_size on its own (commands/fs.rs, lines       *)
(* 36-47), for every frame size that can be configured.  The subtraction   *)
(* is one of usize: below the overhead it panics in a build with overflow  *)
(* checks and wraps around in a build without them.                        *)
(***************************************************************************)
\* the frame size of a client that was not configured
DefaultFrameSize == 256

\* what a call returns: value is the chunk size; when wrapped, the usize
\* returned is 2^64 + value (value is negative)
ChunkSizeResult(res, value, wrapped) == [res |-> res, value |-> value, wrapped |-> wrapped]

\* the outcomes of `smp_frame_size - CBOR_AND_OTHER_HDR` the build can produce
ChunkSizeOutcomes(smp_frame_size) ==
    IF smp_frame_size >= CBOR_AND_OTHER_HDR
    THEN { ChunkSizeResult("Ok", file_upload_max_data_chunk_size(smp_frame_size), FALSE) }
    ELSE { ChunkSizeResult("Panic", 0, FALSE),
           ChunkSizeResult("Ok", file_upload_max_data_chunk_size(smp_frame_size), TRUE) }

ChunkInit ==
    /\ mtu = ConnMtu
    /\ header = << >>
    /\ data = << >>
    /\ failAt = 0
    /\ written = << >>
    /\ sendResult = "none"
    /\ recvResult = [res |-> "none", bytes |-> << >>]
    /\ tpc = "unused"
    /\ ConnUnused
    /\ xfer = NoXfer
    /\ fw = NoFw
    /\ img = NoImg
    /\ smp = NoSmp
    /\ lk = NoLk
    /\ \E x \in 0..DefaultFrameSize :
          ft = [pc |-> "given", op |-> "chunk_size", smp_frame_size |-> x,
                chunk |-> ChunkSizeResult("none", 0, FALSE)]

\* file_upload_max_data_chunk_size(smp_frame_size) is called
ChunkSizeCall ==
    /\ ft.pc = "given"
    /\ \E r \in ChunkSizeOutcomes(ft.smp_frame_size) :
          ft' = [ft EXCEPT !.pc = "computed", !.chunk = r]
    /\ UNCHANGED << framingVars, connVars, xfer, fw, img, smp, lk >>

ChunkNext == ChunkSizeCall

SpecChunk == ChunkInit /\ [][ChunkNext]_vars

\* C34: for every frame size, also one below the 59 bytes of overhead,
\* file_upload_max_data_chunk_size returns (it does not panic) a chunk size
\* that did not wrap around and is no larger than the frame size, and for
\* the default frame size 256 the chunk size is positive.
C34_ChunkSizeNeverUnderflows ==
    ft.pc = "computed" =>
        /\ ft.chunk.res = "Ok"
        /\ ~ft.chunk.wrapped
        /\ ft.chunk.value >= 0
        /\ ft.chunk.value <= ft.smp_frame_size
        /\ ft.smp_frame_size = 256 => ft.chunk.value > 0

(***************************************************************************)
(* The Python binding's LockedClient (locked_client.rs): a MutexGuard on   *)
(* a Mutex<Option<MCUmgrClient>> that is handed out only while the option  *)
(* is Some.  Threads lock, use the client through the guard (a call may    *)
(* panic, which poisons the mutex), drop the guard, or close the client.   *)
(***************************************************************************)
\* most calls of LockedClient::lock, and most calls through a LockedClient
MaxLockCalls == 4

LockThreads == 1..NumThreads

\* LockedClient::lock on a mutex nobody holds: the poison error, 'Client
\* already closed', or the guard
LockedClient_lock(m) ==
    IF m.poisoned THEN "poisoned lock"
    ELSE IF m.client = "None" THEN "Client already closed"
    ELSE "Ok"

\* Deref / DerefMut: self.client.as_ref().expect(..)
deref(m) == IF m.client = "Some" THEN "Some" ELSE "panic"

LockedInit ==
    /\ mtu = ConnMtu
    /\ header = << >>
    /\ data = << >>
    /\ failAt = 0
    /\ written = << >>
    /\ sendResult = "none"
    /\ recvResult = [res |-> "none", bytes |-> << >>]
    /\ tpc = "unused"
    /\ ConnUnused
    /\ xfer = NoXfer
    /\ fw = NoFw
    /\ img = NoImg
    /\ ft = NoFt
    /\ smp = NoSmp
    /\ lk = [pc |-> [t \in LockThreads |-> "idle"], client |-> "Some", poisoned |-> FALSE,
             holder |-> NoThread, closed |-> FALSE, locks |-> << >>,
             uses |-> 0, deref_none |-> FALSE]

\* thread t calls LockedClient::lock; the call returns once nobody holds
\* the mutex; a guard that is not returned is dropped
LockedLock(t) ==
    /\ lk.pc[t] = "idle"
    /\ lk.holder = NoThread
    /\ Len(lk.locks) < MaxLockCalls
    /\ LET r == LockedClient_lock(lk)
           l1 == [lk EXCEPT !.locks = Append(@, [thread |-> t, res |-> r,
                                                 after_close |-> lk.closed])]
       IN  lk' = IF r = "Ok" THEN [l1 EXCEPT !.holder = t, !.pc[t] = "held"] ELSE l1
    /\ UNCHANGED << framingVars, connVars, xfer, fw, img, ft, smp >>

\* thread t calls a method of the client through its LockedClient: the
\* dereference, then the call, which returns or panics; a panic (of the
\* dereference or of the call) unwinds through the guard and poisons the
\* mutex
LockedUse(t) ==
    /\ lk.pc[t] = "held"
    /\ lk.uses < MaxLockCalls
    /\ \E panics \in BOOLEAN :
          LET l1 == [lk EXCEPT !.deref_none = @ \/ deref(lk) = "panic", !.uses = @ + 1]
          IN  lk' = IF deref(lk) = "panic" \/ panics
                    THEN [l1 EXCEPT !.poisoned = TRUE, !.holder = NoThread, !.pc[t] = "idle"]
                    ELSE l1
    /\ UNCHANGED << framingVars, connVars, xfer, fw, img, ft, smp >>

\* thread t drops its LockedClient
LockedDrop(t) ==
    /\ lk.pc[t] = "held"
    /\ lk' = [lk EXCEPT !.holder = NoThread, !.pc[t] = "idle"]
    /\ UNCHANGED << framingVars, connVars, xfer, fw, img, ft, smp >>

\* faulty variant of LockedClose: close borrows the LockedClient
LockedCloseKeepsGuard(t) ==
    /\ lk.pc[t] = "held"
    /\ lk' = [lk EXCEPT !.client = "None", !.closed = TRUE]
    /\ UNCHANGED << framingVars, connVars, xfer, fw, img, ft, smp >>

\* LockedClient::close(mut self): the client is taken out of the option
\* and the guard, owned by close, is dropped
LockedClose(t) ==
    /\ lk.pc[t] = "held"
    /\ lk' = [lk EXCEPT !.client = "None", !.closed = TRUE,
                        !.holder = NoThread, !.pc[t] = "idle"]
    /\ UNCHANGED << framingVars, connVars, xfer, fw, img, ft, smp >>

LockedNext ==
    \E t \in LockThreads :
        \/ LockedLock(t)
        \/ LockedUse(t)
        \/ LockedDrop(t)
        \/ LockedClose(t)

SpecLocked == LockedInit /\ [][LockedNext]_vars

\* C35: a LockedClient is held only while the client is Some; every
\* LockedClient::lock called after close has failed with 'Client already
\* closed'; and no dereference of a LockedClient has met None.
C35_LockedClientInvariant ==
    /\ lk.holder # NoThread => lk.client = "Some"
    /\ \A i \in 1..Len(lk.locks) :
          /\ lk.locks[i].after_close => lk.locks[i].res = "Client already closed"
          /\ lk.locks[i].res = "Ok" => ~lk.locks[i].after_close
    /\ ~lk.deref_none

\* a thread used and closed the client, and two later calls of lock, one by
\* each of two threads at least, failed
C35_Witness ==
    /\ lk.closed
    /\ Len(lk.locks) >= 3
    /\ lk.locks[1].res = "Ok"
    /\ lk.locks[2].after_close
    /\ lk.locks[3].res = "Client already closed"

====
